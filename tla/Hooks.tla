-------------------------------- MODULE Hooks --------------------------------
(***************************************************************************)
(* The React hooks (src/hooks) and the SyncProvider component              *)
(* (src/contexts/SyncProvider.tsx): one mounted instance of one of them    *)
(* over the native side.                                                   *)
(*                                                                         *)
(* React runs an effect, its cleanup, and perhaps the effect again with    *)
(* the same refs (a changed dependency, a hidden and shown tree, strict    *)
(* mode).  An effect starts calls; native executes them in any order, each *)
(* read at its own instant, and their continuations run in any order too.  *)
(* An event goes to the listeners of the moment it is emitted and reaches  *)
(* them later; only the events of one cycle keep their order.              *)
(*                                                                         *)
(* Of the data only versions are kept: a queue, a result or a              *)
(* configuration is the number of the change that made it.  Progress and   *)
(* the error objects are left out, and so are the actions that hand their  *)
(* arguments to the facade: their effect is a change like any other.       *)
(***************************************************************************)
EXTENDS SyncTypes, FiniteSets, SequencesExt, Bags

CONSTANT
  \* The instances looked at: which hook, how often its effect may run, and how many native
  \* changes, requests of the component and rejected calls there may be.
  Instances

AllHooks == {"useConnection", "useSyncStatus", "useSyncQueue", "useOfflineQueue",
             "useSyncSnapshot", "useSyncEvents", "useSyncConfig", "useAutoSync", "SyncProvider"}

ASSUME HooksAssumption ==
  Instances \subseteq [hook : AllHooks, effects : Nat, changes : Nat, faults : Nat]

VARIABLES
  instance,      \* the hook that is mounted, and its bounds
  available,     \* isNativeModuleAvailable
  option,        \* SyncProvider: backgroundSync was given; useAutoSync: flushOnMetered
  effects,       \* one record per run of the effect
  cancelledRef, ownsBackgroundRef, lastConnectionRef,   \* refs
  view,          \* what the hook returns
  local,         \* what a useSyncConfig below the provider returns
  calls,         \* bag of native calls under way
  inbox,         \* events emitted and not yet handled
  world,         \* native state
  listeners,     \* runs whose listener native holds
  changes, faults,
  \* History, read by the properties only.
  stale,         \* fields the hook had no chance to know
  online,        \* the device was not DISCONNECTED at some time
  flushed        \* what was wrong when a flush was asked for

refVars    == <<cancelledRef, ownsBackgroundRef, lastConnectionRef>>
nativeVars == <<world, listeners>>
history    == <<stale, online, flushed>>
fixed      == <<instance, available, option>>
vars == <<fixed, effects, refVars, view, local, calls, inbox, nativeVars, changes, faults, history>>
hook == instance.hook
-----------------------------------------------------------------------------
\* Native state and what the hooks return of it.  Version 0 is "nothing yet".
InitialView == [connection |-> "UNKNOWN", size |-> 0, items |-> 0, last |-> 0, syncing |-> FALSE,
                paused |-> FALSE, config |-> 0, loading |-> FALSE]

View == [connection : ConnectionStatus, size : Nat, items : Nat, last : Nat, syncing : BOOLEAN,
         paused : BOOLEAN, config : Nat, loading : BOOLEAN]

\* syncing is raised before SYNC_STARTED and lowered after the closing event (closing).
\* results counts the results recorded so far; last is the newest one, 0 if none is kept.
World == [connection : ConnectionStatus, size : Nat, items : Nat, last : Nat, results : Nat,
          syncing : BOOLEAN, closing : BOOLEAN, paused : BOOLEAN, config : Nat, background : BOOLEAN]

ReadOps == {"connection", "queue", "last", "syncing", "config"}
CallOps == ReadOps \cup {"add", "remove", "configure", "enable", "disable", "flush"}

\* getQueueSize and getPendingItems are two reads under one Promise.all.
Parts(op) == IF op = "queue" THEN {"size", "items"} ELSE {op}

\* then: what the continuation goes on with.  carry: the status of the event that asked.
NewCall(op, g, then, carry) ==
  [op |-> op, by |-> g, then |-> then, carry |-> carry, todo |-> Parts(op), got |-> <<>>, ok |-> TRUE]

Ask(op, g) == NewCall(op, g, "nothing", "none")

Issue(S) == calls (+) SetToBag(S)

Run == 1..Len(effects)
Current == Len(effects)
Up == Current > 0 /\ ~effects[Current].ended

Under(op) == {c \in BagToSet(calls) : c.op = op}

\* The call is the only one of its kind.
Alone(c) == Under(c.op) = {c} /\ calls[c] = 1

\* Two hooks and useSyncEvents keep the flag in the effect, the others in a ref.
Cancelled(g) ==
  IF hook \in {"useConnection", "useSyncEvents", "useAutoSync"} THEN effects[g].ended ELSE cancelledRef

Init ==
  /\ instance \in Instances
  /\ available \in BOOLEAN
  /\ option \in IF hook \in {"SyncProvider", "useAutoSync"} THEN BOOLEAN ELSE {FALSE}
  /\ effects = <<>>
  /\ cancelledRef = FALSE /\ ownsBackgroundRef = FALSE /\ lastConnectionRef = "null"
  /\ view = InitialView /\ local = 0
  /\ calls = EmptyBag /\ inbox = <<>>
  /\ world \in [connection : {"CONNECTED", "DISCONNECTED"}, size : {1}, items : {1}, last : {0},
                results : {0}, syncing : {FALSE}, closing : {FALSE}, paused : {FALSE}, config : {1},
                background : {FALSE}]
  /\ listeners = {}
  /\ changes = 0 /\ faults = 0
  /\ stale = {} /\ online = (world.connection # "DISCONNECTED") /\ flushed = {}
-----------------------------------------------------------------------------
(***************************************************************************)
(* The hooks one by one: the calls the effect starts with, the calls an    *)
(* event of its listener asks for, and what the hook returns once a read   *)
(* has settled (only when it is not cancelled).                            *)
(***************************************************************************)
QueueEvents == {"ITEM_ENQUEUED", "ITEM_REMOVED", "QUEUE_CLEARED"}
ClosingEvents == {"SYNC_SUCCEEDED", "SYNC_FAILED"}
RefreshEvents == QueueEvents \cup ClosingEvents \cup {"ITEM_SUCCEEDED", "ITEM_FAILED"}

When(cond, S) == IF cond THEN S ELSE {}

\* The view with the fields of a record replaced.
Showing(got) == [f \in DOMAIN view |-> IF f \in DOMAIN got THEN got[f] ELSE view[f]]

\* Of the hooks that read and subscribe, these two subscribe after their read.
UseConnectionStart(g) == {NewCall("connection", g, "add", "none")}
UseConnectionEvent(e) ==
  When(e.type = "CONNECTION_CHANGED", {NewCall("connection", e.to, "nothing", e.status)})
\* A read that fails after an event falls back on the status the event brought.
UseConnectionSettle(c) ==
  [view EXCEPT !.connection = IF c.ok THEN c.got.connection
                              ELSE IF c.carry # "none" THEN c.carry ELSE @]

UseSyncStatusStart(g) == {NewCall("last", g, "add", "none")}
\* A failed cycle leaves the old result.
BugUseSyncStatusEvent(e) == When(e.type = "SYNC_SUCCEEDED", {Ask("last", e.to)})
UseSyncStatusEvent(e) == When(e.type \in ClosingEvents, {Ask("last", e.to)})
UseSyncStatusSettle(c) == [view EXCEPT !.last = IF c.ok /\ c.got.last # 0 THEN c.got.last ELSE @]

UseSyncQueueStart(g) == {Ask("queue", g), Ask("add", g)}
UseSyncQueueEvent(e) == When(e.type \in RefreshEvents, {Ask("queue", e.to)})
\* isLoading is lowered after a success only.
BugUseSyncQueueSettle(c) == IF c.ok THEN [Showing(c.got) EXCEPT !.loading = FALSE] ELSE view
UseSyncQueueSettle(c) ==
  [(IF c.ok THEN Showing(c.got) ELSE view) EXCEPT !.loading = FALSE]

UseOfflineQueueStart(g) == {Ask(op, g) : op \in {"queue", "connection", "syncing", "add"}}
UseOfflineQueueEvent(e) ==
  When(e.type \in RefreshEvents, {Ask("queue", e.to)})
    \cup When(e.type = "CONNECTION_CHANGED", {Ask("connection", e.to)})
UseOfflineQueueSettle(c) == IF c.ok THEN Showing(c.got) ELSE view

UseSyncSnapshotStart(g) == {Ask(op, g) : op \in {"queue", "connection", "last", "syncing", "add"}}
UseSyncSnapshotEvent(e) ==
  When(e.type \in RefreshEvents, {Ask("queue", e.to)})
    \cup When(e.type \in ClosingEvents, {Ask("last", e.to)})
    \cup When(e.type = "CONNECTION_CHANGED", {Ask("connection", e.to)})
UseSyncSnapshotSettle(c) ==
  IF c.ok /\ (c.op = "last" => c.got.last # 0) THEN Showing(c.got) ELSE view

\* Outside a provider; below one the hook is local.
UseSyncConfigStart(g) == {Ask("config", g), Ask("add", g)}
UseSyncConfigEvent(e) == When(e.type = "RESUMED", {Ask("config", e.to)})
UseSyncConfigSettle(c) ==
  [(IF c.ok THEN Showing(c.got) ELSE view) EXCEPT !.loading = FALSE]

\* The provider configures, reads in any case, and goes on if configuring worked.
SyncProviderStart(g) == {NewCall("configure", g, "config", "none")}
SyncProviderEvent(e) == When(e.type = "RESUMED", {Ask("config", e.to)})
SyncProviderSettle(c) == IF c.ok THEN Showing(c.got) ELSE view

UseSyncEventsStart(g) == {Ask("add", g)}
UseAutoSyncStart(g) == {Ask("add", g)}
\* A change to CONNECTED flushes; the status it brought is compared with the last one heard.
UseAutoSyncEvent(e) ==
  When(e.type = "CONNECTION_CHANGED" /\ lastConnectionRef # e.status
         /\ (e.status = "CONNECTED" \/ (e.status = "METERED" /\ option)),
       {NewCall("syncing", e.to, "flush", "none")})

\* Every event is taken for a connection change.
BugLastConnection(e) == e.status
LastConnection(e) == IF e.type = "CONNECTION_CHANGED" THEN e.status ELSE lastConnectionRef

StartCalls(g) ==
  CASE hook = "useConnection"   -> UseConnectionStart(g)
    [] hook = "useSyncStatus"   -> UseSyncStatusStart(g)
    [] hook = "useSyncQueue"    -> UseSyncQueueStart(g)
    [] hook = "useOfflineQueue" -> UseOfflineQueueStart(g)
    [] hook = "useSyncSnapshot" -> UseSyncSnapshotStart(g)
    [] hook = "useSyncConfig"   -> UseSyncConfigStart(g)
    [] hook = "SyncProvider"    -> SyncProviderStart(g)
    [] hook = "useSyncEvents"   -> UseSyncEventsStart(g)
    [] hook = "useAutoSync"     -> UseAutoSyncStart(g)

EventCalls(e) ==
  CASE hook = "useConnection"   -> UseConnectionEvent(e)
    [] hook = "useSyncStatus"   -> UseSyncStatusEvent(e)
    [] hook = "useSyncQueue"    -> UseSyncQueueEvent(e)
    [] hook = "useOfflineQueue" -> UseOfflineQueueEvent(e)
    [] hook = "useSyncSnapshot" -> UseSyncSnapshotEvent(e)
    [] hook = "useSyncConfig"   -> UseSyncConfigEvent(e)
    [] hook = "SyncProvider"    -> SyncProviderEvent(e)
    [] hook = "useAutoSync"     -> UseAutoSyncEvent(e)
    [] hook = "useSyncEvents"   -> {}

ViewAfter(c) ==
  CASE hook = "useConnection"   -> UseConnectionSettle(c)
    [] hook = "useSyncStatus"   -> UseSyncStatusSettle(c)
    [] hook = "useSyncQueue"    -> UseSyncQueueSettle(c)
    [] hook = "useOfflineQueue" -> UseOfflineQueueSettle(c)
    [] hook = "useSyncSnapshot" -> UseSyncSnapshotSettle(c)
    [] hook = "useSyncConfig"   -> UseSyncConfigSettle(c)
    [] hook = "SyncProvider"    -> SyncProviderSettle(c)
    [] OTHER                    -> view
-----------------------------------------------------------------------------
(***************************************************************************)
(* The effect, its cleanup and the callbacks the component may call.       *)
(***************************************************************************)
\* refresh of these hooks raises isLoading, whether or not it is cancelled.
Loading(ask) ==
  hook \in {"useSyncQueue", "useSyncConfig"} /\ \E c \in ask : c.op \in {"queue", "config"}

Ran(ask) == /\ calls' = Issue(ask)
            /\ view' = [view EXCEPT !.loading = @ \/ Loading(ask)]

\* Without the native module, and on the web, the effect does nothing.
Mount ==
  /\ ~Up /\ Len(effects) < instance.effects
  /\ effects' = Append(effects, [ended |-> FALSE, subscribed |-> FALSE, late |-> {}])
  /\ cancelledRef' = FALSE
  /\ Ran(When(available, StartCalls(Current + 1)))
  /\ UNCHANGED <<fixed, ownsBackgroundRef, lastConnectionRef, local, inbox, nativeVars, changes, faults, history>>

\* A cleanup that forgets the listener, and one that forgets background sync.
BugForgetListener == When(ownsBackgroundRef, {Ask("disable", Current)})
BugForgetBackground == When(effects[Current].subscribed, {Ask("remove", Current)})

\* The id of the listener and the ownership of background sync as they are known now.
CleanupCalls ==
  When(effects[Current].subscribed, {Ask("remove", Current)})
    \cup When(ownsBackgroundRef, {Ask("disable", Current)})

Unmount ==
  /\ Up
  /\ effects' = [effects EXCEPT ![Current].ended = TRUE,
                                ![Current].late = When(~effects[Current].subscribed, {"listener"})
                                  \cup When(~ownsBackgroundRef, {"background"})]
  /\ cancelledRef' = TRUE
  /\ ownsBackgroundRef' = FALSE
  /\ calls' = Issue(CleanupCalls)
  /\ UNCHANGED <<fixed, lastConnectionRef, view, local, inbox, nativeVars, changes, faults, history>>

\* refresh() of useSyncQueue and useSyncConfig, called by the component.
Refresh ==
  /\ Up /\ available /\ changes < instance.changes
  /\ hook \in {"useSyncQueue", "useSyncConfig"}
  /\ Ran({Ask(IF hook = "useSyncQueue" THEN "queue" ELSE "config", Current)})
  /\ changes' = changes + 1
  /\ UNCHANGED <<fixed, effects, refVars, local, inbox, nativeVars, faults, history>>

\* setConfig(next): configureSync, then refresh.
SetConfig ==
  /\ Up /\ available /\ hook = "useSyncConfig" /\ changes < instance.changes
  /\ Ran({NewCall("configure", Current, "config", "none")})
  /\ changes' = changes + 1
  /\ UNCHANGED <<fixed, effects, refVars, local, inbox, nativeVars, faults, history>>

\* The interval elapses, or the app comes to the foreground: flushUnlessOffline.
Tick ==
  /\ Up /\ available /\ hook = "useAutoSync" /\ changes < instance.changes
  /\ calls' = Issue({NewCall("connection", Current, "flush", "none")})
  /\ changes' = changes + 1
  /\ UNCHANGED <<fixed, effects, refVars, view, local, inbox, nativeVars, faults, history>>

\* useSyncConfig below the provider copies the context value in its own effect.
MirrorContext ==
  /\ hook = "SyncProvider" /\ local # view.config
  /\ local' = view.config
  /\ UNCHANGED <<fixed, effects, refVars, view, calls, inbox, nativeVars, changes, faults, history>>
-----------------------------------------------------------------------------
(***************************************************************************)
(* Native changes.  Each is counted, except the end of a cycle.  A change  *)
(* reaches only the fields the hook shows, and is announced to the         *)
(* listeners of the moment.                                                *)
(***************************************************************************)
Mirrored ==
  CASE hook = "useConnection"   -> {"connection"}
    [] hook = "useSyncStatus"   -> {"last", "syncing", "paused"}
    [] hook = "useSyncQueue"    -> {"size", "items"}
    [] hook = "useOfflineQueue" -> {"size", "items", "connection", "syncing"}
    [] hook = "useSyncSnapshot" -> {"size", "items", "connection", "last", "syncing", "paused"}
    [] hook \in {"useSyncConfig", "SyncProvider"} -> {"config"}
    [] OTHER                    -> {}

CycleEvents == {"SYNC_STARTED", "ITEM_SUCCEEDED", "ITEM_FAILED", "ITEM_RETRYING"} \cup ClosingEvents

Listening == Up /\ Current \in listeners

Pending(types) == \E k \in DOMAIN inbox : inbox[k].type \in types

Emit(type, status) ==
  inbox' = inbox \o [k \in 1..Cardinality(listeners) |->
                       [type |-> type, status |-> status, to |-> SetToSeq(listeners)[k]]]

\* What the hook does not listen to, and what races with the event, it may show wrong; what the
\* event itself tells (told) it knows again.
Announce(type, status, fields, told, raced) ==
  /\ Emit(type, status)
  /\ stale' = IF Listening THEN (stale \ told) \cup raced ELSE stale \cup fields
  /\ UNCHANGED <<fixed, effects, refVars, view, local, calls, listeners, faults, flushed>>

\* Nobody sees a change after the last cleanup.
Budget == /\ changes < instance.changes /\ changes' = changes + 1
          /\ Up \/ Len(effects) < instance.effects

ConnectionChanges == \E status \in {"CONNECTED", "METERED", "DISCONNECTED"} :
  /\ "connection" \in Mirrored \/ hook = "useAutoSync"
  /\ Budget /\ status # world.connection
  /\ world' = [world EXCEPT !.connection = status]
  /\ online' = (online \/ status # "DISCONNECTED")
  /\ Announce("CONNECTION_CHANGED", status, {"connection"}, {}, {})

\* Outside a cycle the table changes with a write, inside with an item as well.
QueueChanges == \E type \in RefreshEvents \cup {"ITEM_RETRYING"} :
  /\ "size" \in Mirrored
  /\ type \notin ClosingEvents
  /\ Budget /\ (type \in QueueEvents \/ (world.syncing /\ ~world.closing))
  /\ world' = [world EXCEPT !.size = @ + 1, !.items = @ + 1]
  /\ Announce(type, "none", {"size", "items"}, {}, {})
  /\ UNCHANGED online

CycleStarts ==
  /\ Mirrored \cap {"size", "last", "syncing"} # {} \/ hook = "useAutoSync"
  /\ ~world.syncing /\ Budget
  /\ world' = [world EXCEPT !.syncing = TRUE]
  /\ Announce("SYNC_STARTED", "none", {}, {}, {})
  /\ UNCHANGED online

Recorded(w) == [w EXCEPT !.results = w.results + 1, !.last = w.results + 1]

\* A cycle that is aborted records no result.  A probe of isSyncing that is under way may
\* answer after the event.
CycleCloses == \E type \in ClosingEvents, w \in {world, Recorded(world)} :
  /\ world.syncing /\ ~world.closing
  /\ w = world => type = "SYNC_FAILED"
  /\ world' = [w EXCEPT !.closing = TRUE]
  /\ Announce(type, "none", {"size", "items", "syncing", "last"}, {"syncing"},
              When(Under("syncing") # {}, {"syncing"}))
  /\ UNCHANGED <<changes, online>>

CycleReturns ==
  /\ world.closing
  /\ world' = [world EXCEPT !.closing = FALSE, !.syncing = FALSE]
  /\ UNCHANGED <<fixed, effects, refVars, view, local, calls, inbox, listeners, changes, faults, history>>

\* Cancelled while it hands over its closing event, a cycle ends with its result recorded and
\* its rows released, and nobody is told (Android).
CycleEndsSilently ==
  /\ world.syncing /\ ~world.closing
  /\ world' = [Recorded(world) EXCEPT !.syncing = FALSE]
  /\ stale' = stale \cup {"size", "items", "syncing", "last"}
  /\ UNCHANGED <<fixed, effects, refVars, view, local, calls, inbox, listeners, changes, faults, online, flushed>>

\* clearSyncHistory, called anywhere; no event tells of it.
ClearHistory ==
  /\ "last" \in Mirrored /\ world.last # 0 /\ Budget
  /\ world' = [world EXCEPT !.last = 0]
  /\ stale' = stale \cup {"last"}
  /\ UNCHANGED <<fixed, effects, refVars, view, local, calls, inbox, listeners, faults, online, flushed>>

\* pauseSync and resumeSync, from anywhere; two of their events may change places.
PauseChanges == \E paused \in BOOLEAN :
  /\ Mirrored \cap {"paused", "config"} # {} \/ hook = "useSyncEvents"
  /\ Budget
  /\ world' = [world EXCEPT !.paused = paused]
  /\ Announce(IF paused THEN "PAUSED" ELSE "RESUMED", "none", {"paused"}, {"paused"},
              When(Pending({"PAUSED", "RESUMED"}), {"paused"}))
  /\ UNCHANGED online

\* configureSync called elsewhere; no event tells of it.
Reconfigured ==
  /\ "config" \in Mirrored /\ Budget
  /\ world' = [world EXCEPT !.config = @ + 1]
  /\ stale' = stale \cup {"config"}
  /\ UNCHANGED <<fixed, effects, refVars, view, local, calls, inbox, listeners, faults, online, flushed>>

NativeChange ==
  \/ ConnectionChanges \/ QueueChanges
  \/ CycleStarts \/ CycleCloses \/ CycleReturns \/ CycleEndsSilently
  \/ ClearHistory \/ PauseChanges \/ Reconfigured
-----------------------------------------------------------------------------
(***************************************************************************)
(* Native executes a call, part by part, or rejects it.                    *)
(***************************************************************************)
Replace(c, d) == (calls (-) SetToBag({c})) (+) SetToBag({d})

\* Nothing follows these calls, whether they worked or not.
Swallowed == {"remove", "disable", "flush"}

\* A function with one value more.
Extended(got, part, value) ==
  [f \in DOMAIN got \cup {part} |-> IF f = part THEN value ELSE got[f]]

\* The hooks take an undefined last result for no news, and go on showing the one they have.
Ignored(part) == part = "last" /\ world.last = 0 /\ view.last # 0

Read(c, part) ==
  /\ c.op \in ReadOps
  /\ calls' = Replace(c, [c EXCEPT !.todo = @ \ {part}, !.got = Extended(c.got, part, world[part])])
  /\ stale' = IF part = "syncing"
              THEN stale \cup When(world.closing \/ Pending(ClosingEvents), {part})
              ELSE IF Alone(c) /\ c.by = Current /\ Up /\ ~Ignored(part)
                   THEN stale \ {part} ELSE stale \cup {part}
  /\ UNCHANGED <<world, listeners>>

Write(c, part) ==
  /\ c.op \notin ReadOps
  /\ calls' = IF c.op \in Swallowed THEN calls (-) SetToBag({c}) ELSE Replace(c, [c EXCEPT !.todo = {}])
  /\ listeners' = CASE c.op = "add"    -> listeners \cup {c.by}
                    [] c.op = "remove" -> listeners \ {c.by}
                    [] OTHER           -> listeners
  /\ world' = CASE c.op = "configure" -> [world EXCEPT !.config = @ + 1]
                [] c.op = "enable"    -> [world EXCEPT !.background = TRUE]
                [] c.op = "disable"   -> [world EXCEPT !.background = FALSE]
                [] OTHER              -> world
  /\ stale' = stale \cup When(c.op = "configure", {"config"})

Execute(c) ==
  /\ \E part \in c.todo : Read(c, part) \/ Write(c, part)
  /\ UNCHANGED <<fixed, effects, refVars, view, local, inbox, changes, faults, online, flushed>>

Fail(c) ==
  /\ c.todo # {} /\ faults < instance.faults
  /\ c.op \notin Swallowed
  /\ calls' = Replace(c, [c EXCEPT !.todo = {}, !.ok = FALSE])
  /\ faults' = faults + 1
  /\ stale' = stale \cup (Parts(c.op) \cap DOMAIN view)
  /\ UNCHANGED <<fixed, effects, refVars, view, local, inbox, nativeVars, changes, online, flushed>>
-----------------------------------------------------------------------------
(***************************************************************************)
(* Continuations, on the JavaScript thread.                                *)
(***************************************************************************)
Done(c) == c.todo = {}

GoesOn(c, ask) == calls' = (calls (-) SetToBag({c})) (+) SetToBag(ask)

\* A read of a hook that shows it.
SettleRead(c) ==
  /\ Done(c) /\ c.op \in ReadOps /\ hook # "useAutoSync"
  /\ view' = IF Cancelled(c.by) THEN view ELSE ViewAfter(c)
  \* useConnection and useSyncStatus stop when cancelled, the provider goes on.
  /\ GoesOn(c, CASE c.then = "add"    -> When(~Cancelled(c.by), {Ask("add", c.by)})
                [] c.then = "enable" -> {Ask(IF option THEN "enable" ELSE "add", c.by)}
                [] OTHER             -> {})
  /\ UNCHANGED <<fixed, effects, refVars, local, inbox, nativeVars, changes, faults, history>>

\* SyncProvider reads in any case and goes on when configuring worked; setConfig throws.
SettleConfigure(c) ==
  /\ Done(c) /\ c.op = "configure"
  /\ LET ask == When(c.ok \/ hook = "SyncProvider",
                     {NewCall("config", c.by, IF hook = "SyncProvider" /\ c.ok THEN "enable" ELSE "nothing", "none")})
     IN /\ GoesOn(c, ask)
        /\ view' = [view EXCEPT !.loading = @ \/ Loading(ask)]
  /\ UNCHANGED <<fixed, effects, refVars, local, inbox, nativeVars, changes, faults, history>>

SettleEnable(c) ==
  /\ Done(c) /\ c.op = "enable"
  /\ ownsBackgroundRef' = (ownsBackgroundRef \/ c.ok)
  /\ GoesOn(c, When(c.ok, {Ask("add", c.by)}))
  /\ UNCHANGED <<fixed, effects, cancelledRef, lastConnectionRef, view, local, inbox, nativeVars, changes, faults, history>>

\* Only useSyncEvents looks whether the component is gone when the id arrives.
SettleAdd(c) ==
  /\ Done(c) /\ c.op = "add"
  /\ effects' = [effects EXCEPT ![c.by].subscribed = c.ok]
  /\ GoesOn(c, When(c.ok /\ hook = "useSyncEvents" /\ effects[c.by].ended, {Ask("remove", c.by)}))
  /\ UNCHANGED <<fixed, refVars, view, local, inbox, nativeVars, changes, faults, history>>

\* flushUnlessOffline: the status, then safeFlush.
FlushUnlessOffline(c) ==
  /\ Done(c) /\ c.op = "connection" /\ hook = "useAutoSync"
  /\ GoesOn(c, When(c.ok /\ c.got.connection # "DISCONNECTED", {NewCall("syncing", c.by, "flush", "none")}))
  /\ UNCHANGED <<fixed, effects, refVars, view, local, inbox, nativeVars, changes, faults, history>>

\* The effect's end is not looked at again.
BugSafeFlush(c) ==
  /\ Done(c) /\ c.op = "syncing" /\ hook = "useAutoSync"
  /\ LET go == c.ok /\ ~c.got.syncing
     IN /\ GoesOn(c, When(go, {Ask("flush", c.by)}))
        /\ flushed' = flushed \cup When(go /\ effects[c.by].ended, {"after teardown"})
                              \cup When(go /\ ~online, {"offline"})
  /\ UNCHANGED <<fixed, effects, refVars, view, local, inbox, nativeVars, changes, faults, stale, online>>

\* safeFlush: isSyncing, then flush unless a cycle runs or the effect has ended.
SafeFlush(c) ==
  /\ Done(c) /\ c.op = "syncing" /\ hook = "useAutoSync"
  /\ LET go == c.ok /\ ~c.got.syncing /\ ~Cancelled(c.by)
     IN /\ GoesOn(c, When(go, {Ask("flush", c.by)}))
        /\ flushed' = flushed \cup When(go /\ effects[c.by].ended, {"after teardown"})
                              \cup When(go /\ ~online, {"offline"})
  /\ UNCHANGED <<fixed, effects, refVars, view, local, inbox, nativeVars, changes, faults, stale, online>>

Settle(c) == SettleRead(c) \/ SettleConfigure(c) \/ SettleEnable(c) \/ SettleAdd(c)
               \/ FlushUnlessOffline(c) \/ SafeFlush(c)

\* The callback of a listener runs whether or not its effect has ended.
Handle(k) ==
  LET e == inbox[k] IN
  /\ e.type \in CycleEvents => \A j \in 1..(k - 1) : inbox[j].type \notin CycleEvents
  /\ inbox' = RemoveAt(inbox, k)
  /\ calls' = Issue(EventCalls(e))
  /\ view' = [view EXCEPT
       !.syncing = IF "syncing" \notin Mirrored THEN @
                   ELSE (@ \/ e.type = "SYNC_STARTED") /\ e.type \notin ClosingEvents,
       !.paused  = IF "paused" \notin Mirrored THEN @
                   ELSE (@ \/ e.type = "PAUSED") /\ e.type # "RESUMED",
       !.loading = @ \/ Loading(EventCalls(e))]
  /\ lastConnectionRef' = IF hook = "useAutoSync" THEN LastConnection(e) ELSE lastConnectionRef
  /\ UNCHANGED <<fixed, effects, cancelledRef, ownsBackgroundRef, local, nativeVars, changes, faults, history>>

Next ==
  \/ Mount \/ Unmount \/ Refresh \/ SetConfig \/ Tick \/ MirrorContext
  \/ NativeChange
  \/ \E c \in BagToSet(calls) : Execute(c) \/ Fail(c) \/ Settle(c)
  \/ \E k \in DOMAIN inbox : Handle(k)

Spec == Init /\ [][Next]_vars
-----------------------------------------------------------------------------
(***************************************************************************)
(* Properties                                                              *)
(***************************************************************************)
\* Every variable stays in its range; a callback or continuation never writes what
\* useState or the refs cannot hold.
TypeOK ==
  /\ instance \in Instances /\ available \in BOOLEAN /\ option \in BOOLEAN
  /\ effects \in Seq([ended : BOOLEAN, subscribed : BOOLEAN, late : SUBSET {"listener", "background"}])
  /\ Len(effects) <= instance.effects
  /\ cancelledRef \in BOOLEAN /\ ownsBackgroundRef \in BOOLEAN
  /\ lastConnectionRef \in ConnectionStatus \cup {"null"}
  /\ view \in View /\ local \in Nat /\ world \in World
  /\ \A c \in BagToSet(calls) : c.op \in CallOps /\ c.by \in Run /\ c.todo \subseteq Parts(c.op)
  /\ \A k \in DOMAIN inbox : inbox[k].type \in SyncEventType /\ inbox[k].to \in Run
  /\ listeners \subseteq Run
  /\ changes \in 0..instance.changes /\ faults \in 0..instance.faults
  /\ stale \subseteq DOMAIN view /\ online \in BOOLEAN

\* Nothing is under way and no cycle runs.
AtRest == /\ calls = EmptyBag /\ inbox = <<>> /\ ~world.syncing
          /\ hook = "SyncProvider" => local = view.config

\* What the hook returns, or what a useSyncConfig below the provider returns.
Shown(f) == IF hook = "SyncProvider" THEN local ELSE view[f]

\* The event lists of the hooks are complete: when nothing is under way and no cycle runs, a
\* hook shows what native holds, in spite of cleanups, re-runs, torn queue reads and rejected
\* calls, except for the fields in stale.  These are: changed while the listener was not
\* registered, or with no event (configureSync, clearSyncHistory, a cycle that ended silently);
\* read by two overlapping calls, crossed by an event, or not readable; and the last result if
\* the hook holds one and the history was cleared, since it ignores an undefined answer.  A later
\* read, closing event or pause that the hook hears ends the exception.
\* For the provider: consumers see the engine's configuration even if configureSync rejected.
MirrorsAtRest ==
  AtRest /\ Up /\ available => \A f \in Mirrored \ stale : Shown(f) = world[f]

\* The finally of refresh: isLoading never stays up without a read under way that lowers it,
\* across a cleanup that makes refresh return early and a re-run that shares the ref.
LoadingSettles ==
  Up /\ view.loading => \E c \in BagToSet(calls) : c.op \in {"queue", "config"}

\* The cleanups: a listener outlives its effect only if its id was not known yet when the
\* effect was cleaned up, and that of useSyncEvents only until its removal has run.
LeakOnlyInWindow ==
  \A g \in listeners : effects[g].ended =>
    \/ "listener" \in effects[g].late /\ hook # "useSyncEvents"
    \/ \E c \in BagToSet(calls) : c.by = g /\ c.op \in {"add", "remove"}

\* useAutoSync asks for a flush neither after its cleanup, however late the reads before it
\* answer, nor when the device has been DISCONNECTED all along.
NoWildFlush == flushed = {}

\* SyncProvider: once it is gone and all is quiet, background sync is on only if the ownership
\* was not known yet at one of the cleanups.
BackgroundOnlyInWindow ==
  AtRest /\ ~Up /\ world.background => \E g \in Run : "background" \in effects[g].late
=============================================================================
