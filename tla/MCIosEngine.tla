---------------------------- MODULE MCIosEngine ----------------------------
(***************************************************************************)
(* Instances of IosDispatcher and IosEngine for TLC.                       *)
(***************************************************************************)
EXTENDS IosEngine, TLC

CONSTANTS i1, i2, c1, c2

MCWeight == i1 :> 0 @@ i2 :> 2

CallerSymmetry == Permutations(Caller)
-----------------------------------------------------------------------------
(***************************************************************************)
(* Six instances in one run.  Two of the dispatcher by itself:             *)
(*   "dispatch"   both items and both callers, one fault, retries due at   *)
(*                once or held, and a clock that stands still;             *)
(*   "cooldown"   one item and one caller at a time through many cycles,   *)
(*                more faults, and retries that cool.                      *)
(* And four of the engine, with one item and one caller at a time:         *)
(*   "outage"     the network comes and goes, the timer fires, headers     *)
(*                cannot be read, a query fails;                           *)
(*   "relaunch"   the process dies and hybrids come and go;                *)
(*   "configure"  configure calls race the re-arms of cycles and attaches; *)
(*   "lifecycle"  pause, resume and detach race them.                      *)
(* In the last two the network is up, nothing fails and time stands still. *)
(***************************************************************************)
VARIABLE focus

MCvars == <<vars, engineVars, focus>>

DispatchFaults == 1
CooldownSteps  == 4
EngineTime     == 2
EngineFaults   == 1
EngineBudget   == 2
MaxOverlap     == 2

One(b) == IF b THEN 1 ELSE 0

OneItem == Stored(rows') \subseteq {i2}

OneCaller == Cardinality({c \in Caller : pc'[c] # "idle"}) <= 1

Deferred == {i \in Pending(rows') : rows'[i].nextRetryAt # rows[i].nextRetryAt}

Dispatch ==
  /\ Next /\ UNCHANGED engineVars
  /\ now' = 1 /\ faults' <= DispatchFaults
  /\ \A i \in Deferred : rows'[i].nextRetryAt > now => ledger'[i].held > ledger[i].held

Cooldown ==
  /\ Next /\ UNCHANGED engineVars
  /\ OneItem /\ OneCaller
  /\ now' + faults' <= CooldownSteps
  /\ \A i \in Deferred : rows'[i].nextRetryAt > now
-----------------------------------------------------------------------------
Arming == {a \in Armers : arm'[a].stage # "off"}

\* Re-arms and halves of calls under way.
Overlap == Cardinality(Arming) + One(configure') + One(pausing') + One(detaching')

Engine ==
  /\ EngineNext
  /\ OneItem /\ OneCaller
  /\ now' <= EngineTime /\ faults' <= EngineFaults /\ config'.budget = EngineBudget
  /\ \A i \in Deferred : rows'[i].nextRetryAt > now => ledger'[i].held > ledger[i].held

\* The app only attaches, queues, flushes and detaches.
NoCalls == ~configure' /\ ~paused' /\ ~detaching' /\ arm'["resume"].stage = "off" /\ ~manual'

StaysOnline == (~notice /\ notice') => (~online /\ online')

\* The network is up and recovery has run before a hybrid attaches; a row leaves when it was delivered.
Calm ==
  /\ Overlap <= MaxOverlap
  /\ StaysOnline /\ (attached' > 0 => online')
  /\ faults' = 0 /\ now' = 1 /\ (attached' > 0 => startup' = "done")
  /\ Stored(rows) \subseteq Stored(rows') \/ pc' # pc

Outage    == Engine /\ NoCalls /\ Cardinality(Arming) <= 1 /\ attached' >= attached
Relaunch  == Engine /\ NoCalls /\ Cardinality(Arming) <= 1 /\ StaysOnline
Configuring == Engine /\ Calm /\ ~pausing' /\ ~detaching' /\ arm'["resume"].stage = "off"
Lifecycling == Engine /\ Calm /\ ~configure'

\* The engine starts with restored headers, readable or not.
EngineFocus ==
  /\ config.source # "LIVE" /\ config.budget = EngineBudget /\ ~paused
  /\ \/ focus \in {"outage", "relaunch"}
     \/ focus \in {"configure", "lifecycle"} /\ config.source = "PERSISTED"

MCInit == EngineInit /\ ~manual /\ (focus \in {"dispatch", "cooldown"} \/ EngineFocus)

MCNext ==
  /\ \/ focus = "dispatch" /\ Dispatch
     \/ focus = "cooldown" /\ Cooldown
     \/ focus = "outage" /\ Outage
     \/ focus = "relaunch" /\ Relaunch
     \/ focus = "configure" /\ Configuring
     \/ focus = "lifecycle" /\ Lifecycling
  /\ UNCHANGED focus

MCSpec == MCInit /\ [][MCNext]_MCvars

\* The network instance alone.
MCOutageSpec == MCInit /\ focus = "outage" /\ [][MCNext]_MCvars
=============================================================================
