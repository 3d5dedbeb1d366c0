------------------------------ MODULE SyncFacade ------------------------------
(***************************************************************************)
(* The public functions (src/index.tsx) and their web twins                *)
(* (src/index.web.tsx) over the Nitro bridge.                              *)
(*                                                                         *)
(* A call has three parts.  The synchronous one validates and looks for    *)
(* the native object.  The native one runs on a dispatcher of its own, in  *)
(* no order with other calls; an enqueue counts the rows and inserts in    *)
(* two statements, on iOS with an await of a reentrant actor in between.   *)
(* The last one, back in JavaScript, gives the answer its public form.     *)
(* Calls overlap freely.                                                   *)
(*                                                                         *)
(* The drain is in DrainController, events in Hooks, cycles in             *)
(* SyncDispatcher; a cycle here takes rows away and records a result.      *)
(***************************************************************************)
EXTENDS SyncItemRules, FiniteSets, SequencesExt

CONSTANTS
  Slot,        \* calls that may be under way at once
  Item,        \* ids native may assign
  Inputs,      \* what callers pass to enqueue
  Caps,        \* values of SyncOptions.maxQueueSize
  Limits,      \* values of getSyncHistory's limit
  MaxResults   \* bound on recorded results

\* A limit that was not passed.
Omitted == -1

ASSUME FacadeAssumption ==
  /\ IsFiniteSet(Item)
  /\ Inputs \subseteq {NonObject} \cup SyncItemInput(Seq(STRING))
  /\ Caps \subseteq Nat /\ Caps # {}
  /\ Limits \subseteq Nat
  /\ MaxResults \in Nat

VARIABLES
  entry,      \* the bundle in use: "native" or "web"
  resolved,   \* createHybridObject was tried
  available,  \* and it worked
  calls,      \* the calls, by slot
  stored,     \* ids of the rows of the table
  gone,       \* ids that were assigned and removed
  cap,        \* SyncQueueStorage.maxQueueSize
  results,    \* number of recorded results
  \* History, read by the properties only.
  seen        \* how often the object was created, and what calls found of it

memoVars == <<resolved, available>>
rowVars  == <<stored, gone>>
nativeVars == <<rowVars, cap, results>>
vars == <<entry, memoVars, calls, nativeVars, seen>>
-----------------------------------------------------------------------------
(***************************************************************************)
(* The requests of the bridge.  Those whose state is modelled elsewhere    *)
(* are told apart only by the code they reject with: "read" and "set" for  *)
(* the rows' status, the cycle, the pause and the connection, "background" *)
(* and "listener".                                                         *)
(***************************************************************************)
QueueOps      == {"enqueue", "enqueueBatch", "removeItem", "clearQueue", "read"}
SyncOps       == {"flush", "set", "read"}
ConfigOps     == {"configureSync", "read"}
HistoryOps    == {"getLastSyncResult", "getSyncHistory", "clearSyncHistory"}
DeviceOps     == {"read", "background"}
ListenerOps   == {"listener"}
Ops == QueueOps \cup SyncOps \cup ConfigOps \cup HistoryOps \cup DeviceOps \cup ListenerOps

\* The code every native rejection of a function is reported under.
Fallback(op) ==
  CASE op = "flush"           -> "NETWORK_ERROR"
    [] op = "background"      -> "BACKGROUND_TASK_REGISTRATION_FAILED"
    [] OTHER                  -> "INVALID_PAYLOAD"

\* What native throws with; the facade does not look at it.
NativeCode == {"QUEUE_FULL", "INVALID_URL", "NATIVE_MODULE_UNAVAILABLE"}

Phases == {"free", "native", "counted", "answered", "threw", "resolved", "rejected"}

\* n and id are the argument; value is the answer; blamed are the items an error names.
Call == [op : Ops \cup {"none"}, phase : Phases, n : Int, id : Item \cup {"none"}, value : Int,
         code : SyncErrorCode \cup NativeCode \cup {"none"}, blamed : SUBSET Nat,
         \* History: malformed items passed, ids inserted, rows or results when native
         \* answered, whether no other call wrote since this one counted.
         bad : SUBSET Nat, wrote : SUBSET Item, found : Nat, alone : BOOLEAN]

NoCall == [op |-> "none", phase |-> "free", n |-> 0, id |-> "none", value |-> 0, code |-> "none",
           blamed |-> {}, bad |-> {}, wrote |-> {}, found |-> 0, alone |-> FALSE]

Init ==
  /\ entry \in {"native", "web"}
  /\ resolved = FALSE /\ available = FALSE
  /\ calls = [c \in Slot |-> NoCall]
  /\ stored = {} /\ gone = {}
  /\ cap \in {m \in Caps : m > 0}
  /\ results = 0
  /\ seen = [created |-> 0, reached |-> FALSE, refused |-> FALSE]
-----------------------------------------------------------------------------
(***************************************************************************)
(* The synchronous part.                                                   *)
(***************************************************************************)
\* A probe that failed is tried again.
BugGetNativeSyncProvider ==
  /\ resolved' = TRUE
  /\ available' \in IF available THEN {TRUE} ELSE BOOLEAN
  /\ seen' = [seen EXCEPT !.created = IF available THEN @ ELSE @ + 1, !.reached = @ \/ available',
                          !.refused = @ \/ ~available']

\* The object is created at the first use, and what came of it is remembered.
GetNativeSyncProvider ==
  /\ resolved' = TRUE
  /\ available' \in IF resolved THEN {available} ELSE BOOLEAN
  /\ seen' = [seen EXCEPT !.created = IF resolved THEN @ ELSE @ + 1, !.reached = @ \/ available',
                          !.refused = @ \/ ~available']

Reject(c, call, code) == calls' = [calls EXCEPT ![c] = [call EXCEPT !.phase = "rejected", !.code = code]]

\* assertNativeModuleAvailable, then the bridge.
NativeOrThrow(c, call) ==
  /\ GetNativeSyncProvider
  /\ IF available' THEN calls' = [calls EXCEPT ![c] = [call EXCEPT !.phase = "native"]]
                   ELSE Reject(c, call, "NATIVE_MODULE_UNAVAILABLE")

Free(c) == calls[c].phase \in {"free", "resolved", "rejected"}

NewCall(op) == [NoCall EXCEPT !.op = op]

Invoke(c, call) ==
  /\ Free(c) /\ entry = "native"
  /\ NativeOrThrow(c, call)
  /\ UNCHANGED <<entry, nativeVars>>

\* A rejection that never gets as far as the native object.
Refuse(c, call, error) ==
  /\ Free(c) /\ entry = "native"
  /\ Reject(c, call, error.code)
  /\ UNCHANGED <<entry, memoVars, nativeVars, seen>>

Enqueue(c) == \E item \in Inputs :
  LET error == ValidateSyncItem(item)
      call == [NewCall("enqueue") EXCEPT !.n = 1, !.bad = {k \in {0} : ~WellFormed(item)}]
  IN IF error = NoError THEN Invoke(c, call)
     ELSE Refuse(c, [call EXCEPT !.blamed = {0}], error)

\* Batches of up to two; an empty one goes to native as well.
Batches == SeqOf(Inputs, 2)

\* Every issue of every item, with the index of the item; in which order is left out.
BatchIssues(items) ==
  UNION {{[itemIndex |-> k - 1, field |-> issue.field] : issue \in ToSet(CollectSyncItemIssues(items[k]))} :
           k \in 1..Len(items)}

BatchError == [items \in Batches |->
  IF BatchIssues(items) = {} THEN NoError ELSE SyncError("INVALID_PAYLOAD", BatchIssues(items))]

EnqueueBatch(c) == \E items \in Batches :
  LET error == BatchError[items]
      call == [NewCall("enqueueBatch") EXCEPT !.n = Len(items),
               !.bad = {k \in 0..1 : k < Len(items) /\ ~WellFormed(items[k + 1])}]
  IN IF error.code = "none" THEN Invoke(c, call)
     ELSE Refuse(c, [call EXCEPT !.blamed = {issue.itemIndex : issue \in error.validationErrors}], error)

\* enqueueBatch of something that is no array.
EnqueueNoBatch(c) == Refuse(c, NewCall("enqueueBatch"), SyncError("INVALID_PAYLOAD", <<>>))

RemoveItem(c) == \E i \in Item : Invoke(c, [NewCall("removeItem") EXCEPT !.id = i])

ClearQueue(c)      == Invoke(c, NewCall("clearQueue"))
GetQueueSize(c)    == Invoke(c, NewCall("read"))
GetPendingItems(c) == Invoke(c, NewCall("read"))

Flush(c)      == Invoke(c, NewCall("flush"))
PauseSync(c)  == Invoke(c, NewCall("set"))
ResumeSync(c) == Invoke(c, NewCall("set"))
IsSyncing(c)  == Invoke(c, NewCall("read"))

ConfigureSync(c) == \E m \in Caps : Invoke(c, [NewCall("configureSync") EXCEPT !.n = m])
GetSyncConfig(c) == Invoke(c, NewCall("read"))

GetLastSyncResult(c) == Invoke(c, NewCall("getLastSyncResult"))

\* limit ?? 0
GetSyncHistory(c) == \E limit \in Limits \cup {Omitted} :
  Invoke(c, [NewCall("getSyncHistory") EXCEPT !.n = IF limit = Omitted THEN 0 ELSE limit])

ClearSyncHistory(c) == Invoke(c, NewCall("clearSyncHistory"))

GetConnectionStatus(c) == Invoke(c, NewCall("read"))

EnableBackgroundSync(c)    == Invoke(c, NewCall("background"))
DisableBackgroundSync(c)   == Invoke(c, NewCall("background"))
IsBackgroundSyncEnabled(c) == Invoke(c, NewCall("background"))

AddSyncEventListener(c)    == Invoke(c, NewCall("listener"))
RemoveSyncEventListener(c) == Invoke(c, NewCall("listener"))

\* index.web.tsx: every function rejects, listeners are accepted and ignored.
WebCall(c) ==
  /\ Free(c) /\ entry = "web"
  /\ \E op \in Ops :
       IF op \in ListenerOps THEN calls' = [calls EXCEPT ![c] = [NewCall(op) EXCEPT !.phase = "resolved"]]
                             ELSE Reject(c, NewCall(op), "NATIVE_MODULE_UNAVAILABLE")
  /\ UNCHANGED <<entry, memoVars, nativeVars, seen>>
-----------------------------------------------------------------------------
(***************************************************************************)
(* The native part, on Android.                                            *)
(***************************************************************************)
Running(c, ops) == calls[c].phase = "native" /\ calls[c].op \in ops

Answer(c, value) ==
  calls' = [calls EXCEPT ![c].phase = "answered", ![c].value = value]

Throw(c, code) == calls' = [calls EXCEPT ![c].phase = "threw", ![c].code = code]

\* The cap compared before the new rows are added.
BugCountRows(c) ==
  /\ Running(c, {"enqueue", "enqueueBatch"})
  /\ IF calls[c].n = 0 THEN Answer(c, 0)
     ELSE IF Cardinality(stored) > cap THEN Throw(c, "QUEUE_FULL")
     ELSE calls' = [calls EXCEPT ![c].phase = "counted", ![c].alone = TRUE]
  /\ UNCHANGED <<entry, memoVars, nativeVars, seen>>

\* The first half of storage.enqueue and storage.enqueueBatch.
CountRows(c) ==
  /\ Running(c, {"enqueue", "enqueueBatch"})
  /\ IF calls[c].n = 0 THEN Answer(c, 0)
     ELSE IF Cardinality(stored) + calls[c].n > cap THEN Throw(c, "QUEUE_FULL")
     ELSE calls' = [calls EXCEPT ![c].phase = "counted", ![c].alone = TRUE]
  /\ UNCHANGED <<entry, memoVars, nativeVars, seen>>

\* What the other counted calls decided on is no longer so.
Outdated(c) == [d \in Slot |-> [calls[d] EXCEPT !.alone = @ /\ d = c]]

\* The second half: one transaction for all rows.
InsertRows(c) ==
  /\ calls[c].phase = "counted"
  /\ \E ids \in SUBSET (Item \ (stored \cup gone)) :
       /\ Cardinality(ids) = calls[c].n
       /\ stored' = stored \cup ids
       /\ calls' = [Outdated(c) EXCEPT ![c].phase = "answered", ![c].wrote = ids]
  /\ UNCHANGED <<entry, memoVars, gone, cap, results, seen>>

NativeRemoveItem(c) ==
  /\ Running(c, {"removeItem"})
  /\ Answer(c, IF calls[c].id \in stored THEN 1 ELSE 0)
  /\ stored' = stored \ {calls[c].id}
  /\ gone' = gone \cup ({calls[c].id} \cap stored)
  /\ UNCHANGED <<entry, memoVars, cap, results, seen>>

NativeClearQueue(c) ==
  /\ Running(c, {"clearQueue"})
  /\ Answer(c, 0)
  /\ stored' = {} /\ gone' = gone \cup stored
  /\ UNCHANGED <<entry, memoVars, cap, results, seen>>

NativeElsewhere(c) ==
  /\ Running(c, {"read", "set", "background", "listener"})
  /\ Answer(c, 0)
  /\ UNCHANGED <<entry, memoVars, nativeVars, seen>>

\* A paused engine, or one without headers, answers the sentinel; a cycle takes rows away
\* and records a result.
NativeFlush(c) ==
  /\ Running(c, {"flush"})
  /\ \/ Answer(c, 0) /\ UNCHANGED <<rowVars, results>>
     \/ /\ results < MaxResults
        /\ Answer(c, 1)
        /\ results' = results + 1
        /\ stored' \in SUBSET stored
        /\ gone' = gone \cup (stored \ stored')
  /\ UNCHANGED <<entry, memoVars, cap, seen>>

\* The cap as it was passed.
BugNativeConfigure(c) ==
  /\ Running(c, {"configureSync"})
  /\ cap' = calls[c].n
  /\ calls' = [Outdated(c) EXCEPT ![c].phase = "answered"]
  /\ UNCHANGED <<entry, memoVars, rowVars, results, seen>>

\* configure: a cap below 1 is 1.
NativeConfigure(c) ==
  /\ Running(c, {"configureSync"})
  /\ cap' = IF calls[c].n < 1 THEN 1 ELSE calls[c].n
  /\ calls' = [Outdated(c) EXCEPT ![c].phase = "answered"]
  /\ UNCHANGED <<entry, memoVars, rowVars, results, seen>>

\* The sentinel, value 0, stands for no result.
NativeGetLastResult(c) ==
  /\ Running(c, {"getLastSyncResult"})
  /\ calls' = [calls EXCEPT ![c].phase = "answered", ![c].value = IF results > 0 THEN 1 ELSE 0,
                            ![c].found = results]
  /\ UNCHANGED <<entry, memoVars, nativeVars, seen>>

\* A limit of 0 is none.
NativeGetHistory(c) ==
  /\ Running(c, {"getSyncHistory"})
  /\ calls' = [calls EXCEPT ![c].phase = "answered",
                            ![c].value = IF calls[c].n > 0 /\ calls[c].n < results THEN calls[c].n ELSE results,
                            ![c].found = results]
  /\ UNCHANGED <<entry, memoVars, nativeVars, seen>>

NativeClearHistory(c) ==
  /\ Running(c, {"clearSyncHistory"})
  /\ Answer(c, 0)
  /\ results' = 0
  /\ UNCHANGED <<entry, memoVars, rowVars, cap, seen>>

\* A URL only native finds wrong; a statement that fails, or anything else unexpected.
NativeThrows(c) ==
  /\ calls[c].phase \in {"native", "counted"}
  /\ \/ calls[c].phase = "native" /\ calls[c].n > 0 /\ calls[c].op \in {"enqueue", "enqueueBatch"}
          /\ Throw(c, "INVALID_URL")
     \/ Throw(c, "NATIVE_MODULE_UNAVAILABLE")
  /\ UNCHANGED <<entry, memoVars, nativeVars, seen>>
-----------------------------------------------------------------------------
(***************************************************************************)
(* The answer.                                                             *)
(***************************************************************************)
\* The native code is passed on.
BugWrapNativeError(call) == [call EXCEPT !.phase = "rejected"]

WrapNativeError(call) == [call EXCEPT !.phase = "rejected", !.code = Fallback(call.op)]

\* Without the translation of the sentinel.
BugIsLastSyncSentinel(call) == FALSE

\* startedAt === 0 && finishedAt === 0
IsLastSyncSentinel(call) == call.op = "getLastSyncResult" /\ call.value = 0

Undefined == -1

\* Answers other than those of the history are not looked at again.
Resolved(call) ==
  IF call.op \in HistoryOps
  THEN [call EXCEPT !.phase = "resolved", !.value = IF IsLastSyncSentinel(call) THEN Undefined ELSE @]
  ELSE NoCall

Settle(c) ==
  /\ \/ calls[c].phase = "answered" /\ calls' = [calls EXCEPT ![c] = Resolved(calls[c])]
     \/ calls[c].phase = "threw"    /\ calls' = [calls EXCEPT ![c] = WrapNativeError(calls[c])]
  /\ UNCHANGED <<entry, memoVars, nativeVars, seen>>
-----------------------------------------------------------------------------
QueueCall(c) == Enqueue(c) \/ EnqueueBatch(c) \/ EnqueueNoBatch(c) \/ RemoveItem(c) \/ ClearQueue(c)
                  \/ GetQueueSize(c) \/ GetPendingItems(c)
SyncCall(c) == Flush(c) \/ PauseSync(c) \/ ResumeSync(c) \/ IsSyncing(c) \/ ConfigureSync(c) \/ GetSyncConfig(c)
HistoryCall(c) == GetLastSyncResult(c) \/ GetSyncHistory(c) \/ ClearSyncHistory(c)
DeviceCall(c) == GetConnectionStatus(c) \/ EnableBackgroundSync(c) \/ DisableBackgroundSync(c)
                   \/ IsBackgroundSyncEnabled(c) \/ AddSyncEventListener(c) \/ RemoveSyncEventListener(c)

NativeStep(c) == CountRows(c) \/ InsertRows(c) \/ NativeRemoveItem(c) \/ NativeClearQueue(c) \/ NativeElsewhere(c)
                   \/ NativeFlush(c) \/ NativeConfigure(c) \/ NativeGetLastResult(c) \/ NativeGetHistory(c)
                   \/ NativeClearHistory(c) \/ NativeThrows(c)

Next == \E c \in Slot :
  QueueCall(c) \/ SyncCall(c) \/ HistoryCall(c) \/ DeviceCall(c) \/ WebCall(c) \/ NativeStep(c) \/ Settle(c)

Spec == Init /\ [][Next]_vars
-----------------------------------------------------------------------------
\* The calls and the native state have their types; an id is stored or gone, not both.
TypeOK ==
  /\ entry \in {"native", "web"} /\ resolved \in BOOLEAN /\ available \in BOOLEAN
  /\ calls \in [Slot -> Call]
  /\ stored \subseteq Item /\ gone \subseteq Item /\ stored \cap gone = {}
  /\ cap \in Nat \ {0} /\ results \in 0..MaxResults
  /\ seen \in [created : Nat, reached : BOOLEAN, refused : BOOLEAN]

\* The native object is created at most once, and availability never changes its mind: no
\* call is refused for want of the module after one got through, nor the other way round
\* (isNativeModuleAvailable.ts).
OneNativeObject == seen.created <= 1 /\ ~(seen.reached /\ seen.refused)

\* A rejection tells the caller what happened.  An enqueue that rejects has stored nothing.
\* One that names items never reached native and names exactly the malformed ones; so did
\* one with NATIVE_MODULE_UNAVAILABLE or INVALID_URL, although native throws both codes for
\* reasons of its own (enqueue, enqueueBatch, wrapNativeError).
RejectionTells ==
  \A c \in Slot : calls[c].phase = "rejected" =>
    LET call == calls[c] IN
    /\ call.wrote = {}
    /\ call.blamed = call.bad
    /\ call.code = "INVALID_URL" => call.op = "enqueue" /\ call.bad # {}
    /\ call.code = "NATIVE_MODULE_UNAVAILABLE" => ~available
    /\ call.code \in SyncErrorCode

\* An enqueue that no other write overtook between its count and its insert keeps the cap;
\* only enqueues that overlap pass it (SyncQueueStorage.enqueue and enqueueBatch).
CapKept ==
  [][\A c \in Slot : (calls[c].phase = "counted" /\ calls[c].alone /\ calls'[c].phase = "answered")
        => Cardinality(stored') <= cap]_vars

\* A caller of the history never meets the sentinel: undefined means that no result was
\* recorded when native answered, and history without a limit is all of it.
HistoryHonest ==
  \A c \in Slot : calls[c].phase = "resolved" =>
    LET call == calls[c] IN
    /\ call.op = "getLastSyncResult" /\ entry = "native" =>
         call.value # 0 /\ (call.value = Undefined) = (call.found = 0)
    /\ call.op = "getSyncHistory" /\ call.n = 0 => call.value = call.found
-----------------------------------------------------------------------------
(***************************************************************************)
(* Inductive invariants behind the properties.                             *)
(***************************************************************************)

\* What came of the first look for the object is remembered; the web bundle never looks.
MemoInv ==
  /\ seen.created = IF resolved THEN 1 ELSE 0
  /\ available => resolved
  /\ seen.reached => available
  /\ seen.refused => resolved /\ ~available
  /\ entry = "web" => ~resolved

\* A call that got past the bridge found the object there, passed validation, has written
\* nothing but what its insert answered with, and carries the answer of its function; one
\* that is over says so.  It may say NATIVE_MODULE_UNAVAILABLE only where every later call
\* will, not on the availability of the moment.
Honest(call, there, barred) ==
  /\ call.phase \in {"native", "counted", "answered", "threw"} => there /\ call.blamed = {} /\ call.bad = {}
  /\ call.phase \in {"native", "counted", "threw"} => call.wrote = {}
  /\ call.phase = "counted" => call.op \in {"enqueue", "enqueueBatch"}
  /\ call.phase = "answered" =>
       /\ call.op = "getLastSyncResult" => call.value = IF call.found > 0 THEN 1 ELSE 0
       /\ call.op = "getSyncHistory" /\ call.n = 0 => call.value = call.found
  /\ call.phase = "resolved" =>
       /\ call.op = "getLastSyncResult" => call.value # 0 /\ (call.value = Undefined) = (call.found = 0)
       /\ call.op = "getSyncHistory" /\ call.n = 0 => call.value = call.found
  /\ call.phase = "rejected" =>
       /\ call.wrote = {} /\ call.blamed = call.bad
       /\ call.code = "INVALID_URL" => call.op = "enqueue" /\ call.bad # {}
       /\ call.code = "NATIVE_MODULE_UNAVAILABLE" => barred
       /\ call.code \in SyncErrorCode

CallsInv == \A c \in Slot : Honest(calls[c], available, seen.refused \/ entry = "web")

\* What a call counted is still so, unless another write came.
CapInv ==
  \A c \in Slot : calls[c].phase = "counted" /\ calls[c].alone => Cardinality(stored) + calls[c].n <= cap
=============================================================================
