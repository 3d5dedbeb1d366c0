---------------------------- MODULE HooksProofs ----------------------------
(***************************************************************************)
(* Proofs about Hooks, for any set of instances: any hook, any number of   *)
(* runs of its effect, native changes, requests and rejected calls.        *)
(*                                                                         *)
(* The calls under way are a bag.  Every action changes it in one of two   *)
(* ways: it issues calls, or it takes one call out and puts in what that   *)
(* call becomes or goes on with.  Moves(out, in) says so for all of them;  *)
(* the first half of the module shows it action by action, the second      *)
(* half proves each invariant from it.                                     *)
(***************************************************************************)
EXTENDS Hooks, SequenceTheorems, FiniteSetTheorems, TLAPS
-----------------------------------------------------------------------------
(***************************************************************************)
(* The inductive invariants.                                               *)
(***************************************************************************)
\* A cycle runs and its closing event is still to come.
Active == world.syncing /\ ~world.closing

\* What a call may have to do, where a continuation may lead, the calls a hook makes.
Part == UNION {Parts(op) : op \in CallOps}
Nexts == {"nothing", "add", "config", "enable", "flush"}
OpsOf ==
  CASE hook = "useConnection"   -> {"connection", "add", "remove"}
    [] hook = "useSyncStatus"   -> {"last", "add", "remove"}
    [] hook = "useSyncQueue"    -> {"queue", "add", "remove"}
    [] hook = "useOfflineQueue" -> {"queue", "connection", "syncing", "add", "remove"}
    [] hook = "useSyncSnapshot" -> {"queue", "connection", "last", "syncing", "add", "remove"}
    [] hook = "useSyncConfig"   -> {"config", "configure", "add", "remove"}
    [] hook = "SyncProvider"    -> {"configure", "config", "enable", "disable", "add", "remove"}
    [] hook = "useSyncEvents"   -> {"add", "remove"}
    [] hook = "useAutoSync"     -> {"connection", "syncing", "flush", "add", "remove"}

\* What native answers for a field.
Values(f) == CASE f = "connection" -> ConnectionStatus
               [] f \in {"size", "items", "last", "config"} -> Nat
               [] OTHER -> BOOLEAN

\* Which call goes on with what.
ThenOK(c) ==
  /\ c.then \in Nexts
  /\ c.then = "add" => hook \in {"useConnection", "useSyncStatus"} /\ c.op \in ReadOps
  /\ c.then = "enable" => hook = "SyncProvider" /\ c.op = "config"

\* The calls that brought got.
CallWith(got) == [op : CallOps, by : Nat, then : Nexts, carry : ConnectionStatus \cup {"none"},
                  todo : SUBSET Part, got : {got}, ok : BOOLEAN]

\* A call: while it is under way it has answered what is no longer to do.
CallOK(c) ==
  /\ c \in CallWith(c.got)
  /\ c.op \in OpsOf /\ c.by \in Run /\ ThenOK(c)
  /\ c.todo \subseteq Parts(c.op) /\ (c.todo # {} => c.ok)
  /\ c.got = [f \in DOMAIN c.got |-> c.got[f]]
  /\ DOMAIN c.got \subseteq Parts(c.op) /\ (DOMAIN c.got # {} => c.op \in ReadOps)
  /\ \A f \in DOMAIN c.got : c.got[f] \in Values(f)
  /\ c.op \in ReadOps /\ c.ok => DOMAIN c.got = Parts(c.op) \ c.todo

\* An event, with the status it brings if it tells of the connection.
Event == [type : SyncEventType, status : ConnectionStatus \cup {"none"}, to : Nat]

EventOK(e) ==
  /\ e \in Event
  /\ e.to \in Run
  /\ e.type = "CONNECTION_CHANGED" => e.status \in ConnectionStatus

Effect == [ended : BOOLEAN, subscribed : BOOLEAN, late : SUBSET {"listener", "background"}]

\* The variables one by one, the calls, the inbox, and the hook without a native module.
StateOK ==
  /\ instance \in Instances /\ available \in BOOLEAN /\ option \in BOOLEAN
  /\ effects \in Seq(Effect) /\ Len(effects) <= instance.effects
  /\ cancelledRef \in BOOLEAN /\ ownsBackgroundRef \in BOOLEAN
  /\ ownsBackgroundRef => hook = "SyncProvider"
  /\ lastConnectionRef \in ConnectionStatus \cup {"null"}
  /\ view \in View /\ local \in Nat /\ world \in World
  /\ listeners \subseteq Run
  /\ changes \in 0..instance.changes /\ faults \in 0..instance.faults
  /\ stale \subseteq DOMAIN view /\ online \in BOOLEAN

CallsOK == IsABag(calls) /\ \A c \in BagToSet(calls) : CallOK(c)

InboxOK == inbox \in Seq(Event) /\ \A k \in DOMAIN inbox : EventOK(inbox[k])

IdleOK ==
  ~available =>
    /\ BagToSet(calls) = {} /\ inbox = <<>> /\ listeners = {} /\ ~view.loading /\ ~ownsBackgroundRef
    /\ \A g \in Run : ~effects[g].subscribed

TypeInv == StateOK /\ CallsOK /\ InboxOK /\ IdleOK

\* isLoading: raised only by the two hooks with a refresh, and a refresh is under way; a
\* mounted hook is not cancelled.
LoadInv ==
  /\ Up => ~cancelledRef
  /\ view.loading => hook \in {"useSyncQueue", "useSyncConfig"}
  /\ LoadingSettles

\* A call and an event that tell of a device that is not disconnected.
HeardOf(c) == \/ hook = "useAutoSync" /\ c.op = "syncing"
              \/ "connection" \in DOMAIN c.got /\ c.got["connection"] # "DISCONNECTED"
TellsOf(e) == e.type = "CONNECTION_CHANGED" /\ e.status # "DISCONNECTED"

\* Whatever says the device is not disconnected was true at some time.
OnlineInv ==
  /\ flushed = {}
  /\ world.connection # "DISCONNECTED" => online
  /\ \A k \in DOMAIN inbox : TellsOf(inbox[k]) => online
  /\ \A c \in BagToSet(calls) : HeardOf(c) => online

\* The calls on the way to enable background sync, and those that may yet subscribe.
Enabling(c) == hook = "SyncProvider" /\ (c.op \in {"configure", "enable"} \/ c.then = "enable")
Seed(c) == c.op = "add" \/ c.then = "add" \/ Enabling(c)

\* A run has at most one such call, and until it has settled the id of the listener is
\* not known.
SeedOK(c) ==
  /\ calls[c] = 1
  /\ \A d \in BagToSet(calls) : Seed(d) /\ d.by = c.by => d = c
  /\ ~effects[c.by].subscribed
  /\ effects[c.by].ended => "listener" \in effects[c.by].late
  /\ c.by \in listeners => c.op = "add" /\ c.todo = {} /\ c.ok

\* A listener is removed after its run has ended and once none may come after it.
RemoveOK(c) ==
  /\ effects[c.by].ended
  /\ \A d \in BagToSet(calls) : Seed(d) => d.by # c.by

\* The listeners that native holds are known to their run, or the call that tells of them
\* is under way.
ListenInv ==
  /\ \A c \in BagToSet(calls) : Seed(c) => SeedOK(c)
  /\ \A c \in BagToSet(calls) : c.op = "remove" => RemoveOK(c)
  /\ \A g \in listeners : ~effects[g].ended =>
       effects[g].subscribed \/ \E c \in BagToSet(calls) : c.op = "add" /\ c.by = g
  /\ LeakOnlyInWindow

\* A cleanup ran before the ownership of background sync was known.
Late == \E g \in Run : effects[g].ended /\ "background" \in effects[g].late

\* Otherwise what enables background sync belongs to a run that has not ended, and while
\* it is on it is owned, about to be owned, or about to be disabled.
EnabledInTime ==
  /\ \A c \in BagToSet(calls) : Enabling(c) => ~effects[c.by].ended
  /\ ownsBackgroundRef => Up /\ \A c \in BagToSet(calls) : ~Enabling(c)
  /\ world.background => \/ ownsBackgroundRef
                         \/ \E c \in BagToSet(calls) : c.op = "enable" /\ c.todo = {} /\ c.ok
                         \/ \E c \in BagToSet(calls) : c.op = "disable"

\* Only the last run may be live.
BackgroundInv ==
  /\ \A g \in Run : ~effects[g].ended => g = Current
  /\ Late \/ EnabledInTime

\* The fields that are read, the call that reads one, and the events that make a hook read it.
ReadFields == {"connection", "size", "items", "last", "config"}
OpOf(f) == IF f \in {"size", "items"} THEN "queue" ELSE f
Asking(f) ==
  CASE f = "connection"         -> {"CONNECTION_CHANGED"}
    [] f \in {"size", "items"}  -> RefreshEvents
    [] f = "last"               -> ClosingEvents
    [] f = "config"             -> {"RESUMED"}

\* A read of the field is to come.
Underway(f) ==
  \/ Pending(Asking(f))
  \/ \E c \in BagToSet(calls) : c.op = OpOf(f) /\ f \in c.todo
  \/ f = "config" /\ hook = "SyncProvider" /\ \E c \in BagToSet(calls) : c.op = "configure"
  \/ f \in {"size", "items"} /\ Active

\* The hook shows what native holds, or is about to.
Answered(f) ==
  \/ Under(OpOf(f)) = {} /\ view[f] = world[f]
  \/ \E c \in BagToSet(calls) :
       Alone(c) /\ c.op = OpOf(f) /\ c.by = Current /\ c.ok /\ f \in DOMAIN c.got /\ c.got[f] = world[f]

Known(f) == Underway(f) \/ Answered(f)

\* Every field the hook shows and can know is known.
ReadInv == Up /\ available => \A f \in (Mirrored \cap ReadFields) \ stale : Known(f)

\* While native keeps no result the hook knows of none, unless the history was cleared under it.
LastInv ==
  (world.last = 0 /\ "last" \notin stale) =>
    view.last = 0 /\ \A c \in BagToSet(calls) : "last" \in DOMAIN c.got => c.got["last"] = 0

\* The end of the cycle is known, or the event that tells of it is yet to be handled.
LoweredInTime ==
  /\ view.syncing => Pending(ClosingEvents)
  /\ \A i \in DOMAIN inbox : inbox[i].type = "SYNC_STARTED" =>
       \E j \in DOMAIN inbox : j > i /\ inbox[j].type \in ClosingEvents
  /\ \A c \in BagToSet(calls) : "syncing" \in DOMAIN c.got => ~c.got["syncing"]

\* isSyncing of the hooks: raised by SYNC_STARTED or a probe, lowered by the closing event.
SyncingInv ==
  /\ world.closing => world.syncing
  /\ "syncing" \in Mirrored \ stale /\ ~Active => LoweredInTime

PauseEvents == {"PAUSED", "RESUMED"}

\* The pause: the events under way all tell of the pause as it is.
PausedInv ==
  "paused" \in Mirrored \ stale =>
    /\ \A k \in DOMAIN inbox : inbox[k].type \in PauseEvents => (inbox[k].type = "PAUSED" <=> world.paused)
    /\ ~Pending(PauseEvents) => view.paused = world.paused

-----------------------------------------------------------------------------
(***************************************************************************)
(* Bags, the inbox and its events.                                         *)
(***************************************************************************)
\* The calls in are under way now, out were taken out once, all others are untouched.
Moves(out, in) ==
  /\ IsABag(calls')
  /\ BagToSet(calls') \subseteq BagToSet(calls) \cup in
  /\ in \subseteq BagToSet(calls')
  /\ BagToSet(calls) \ out \subseteq BagToSet(calls')
  /\ \A d \in BagToSet(calls) \ (out \cup in) : calls'[d] = calls[d]
  /\ \A d \in in \ BagToSet(calls) : calls'[d] = 1
  /\ \A d \in out : calls[d] = 1 => d \notin BagToSet(calls')

\* Taking one copy of a call out of a bag.
LEMMA TakenOut ==
  ASSUME NEW B, IsABag(B), NEW c
  PROVE  /\ IsABag(B (-) SetToBag({c}))
         /\ BagToSet(B (-) SetToBag({c})) \subseteq BagToSet(B)
         /\ \A d \in BagToSet(B) \ {c} : d \in BagToSet(B (-) SetToBag({c})) /\ (B (-) SetToBag({c}))[d] = B[d]
         /\ B[c] = 1 => c \notin BagToSet(B (-) SetToBag({c}))
  BY DEF IsABag, BagToSet, SetToBag, (-)

\* Putting calls into a bag.
LEMMA PutIn ==
  ASSUME NEW B, IsABag(B), NEW S
  PROVE  /\ IsABag(B (+) SetToBag(S))
         /\ BagToSet(B (+) SetToBag(S)) = BagToSet(B) \cup S
         /\ \A d \in BagToSet(B) \ S : (B (+) SetToBag(S))[d] = B[d]
         /\ \A d \in S \ BagToSet(B) : (B (+) SetToBag(S))[d] = 1
  BY DEF IsABag, BagToSet, SetToBag, (+)

\* Calls that are issued.
LEMMA IssueMoves ==
  ASSUME IsABag(calls), NEW S, calls' = Issue(S)
  PROVE  Moves({}, S)
  BY PutIn DEF Moves, Issue

\* A continuation goes on with other calls.
LEMMA GoesOnMoves ==
  ASSUME IsABag(calls), NEW c, NEW ask, GoesOn(c, ask), c \notin ask
  PROVE  Moves({c}, ask)
<1> DEFINE B == calls (-) SetToBag({c})
<1>1. /\ IsABag(B) /\ BagToSet(B) \subseteq BagToSet(calls)
      /\ \A d \in BagToSet(calls) \ {c} : d \in BagToSet(B) /\ B[d] = calls[d]
      /\ calls[c] = 1 => c \notin BagToSet(B)
  BY TakenOut
<1>2. calls' = B (+) SetToBag(ask)
  BY DEF GoesOn
<1> HIDE DEF B
<1>3. /\ IsABag(calls')
      /\ BagToSet(calls') = BagToSet(B) \cup ask
      /\ \A d \in BagToSet(B) \ ask : calls'[d] = B[d]
      /\ \A d \in ask \ BagToSet(B) : calls'[d] = 1
  BY <1>1, <1>2, PutIn
<1>4. QED
  BY <1>1, <1>3 DEF Moves

\* A call is replaced by what it has become.
LEMMA ReplaceMoves ==
  ASSUME IsABag(calls), NEW c, NEW d, calls' = Replace(c, d), c # d
  PROVE  Moves({c}, {d})
<1>1. GoesOn(c, {d})
  BY DEF Replace, GoesOn
<1>2. QED
  BY <1>1, GoesOnMoves

\* A call nobody waits for.
LEMMA DropMoves ==
  ASSUME IsABag(calls), NEW c, calls' = calls (-) SetToBag({c})
  PROVE  Moves({c}, {})
  BY TakenOut DEF Moves

\* A step that leaves the calls alone.
LEMMA StayMoves ==
  ASSUME IsABag(calls), calls' = calls
  PROVE  Moves({}, {})
  BY DEF Moves

\* The listeners in the order an event is delivered to them.
LEMMA ListenersInOrder ==
  ASSUME NEW S, IsFiniteSet(S)
  PROVE  /\ Cardinality(S) \in Nat
         /\ \A k \in 1..Cardinality(S) : SetToSeq(S)[k] \in S
         /\ S # {} => Cardinality(S) > 0
<1>1. Cardinality(S) \in Nat /\ ExistsBijection(1..Cardinality(S), S)
  BY FS_CardinalityType
<1>2. \E f \in [1..Cardinality(S) -> S] : IsInjective(f)
  BY <1>1 DEF ExistsBijection, Bijection, Injection, IsInjective
<1>3. SetToSeq(S) \in [1..Cardinality(S) -> S]
  BY <1>2 DEF SetToSeq
<1>4. S # {} => Cardinality(S) > 0
  BY <1>1, FS_EmptySet
<1>5. QED
  BY <1>1, <1>3, <1>4

\* A sequence without its entry at k.
LEMMA RemoveAtFacts ==
  ASSUME NEW S, NEW s \in Seq(S), NEW k \in DOMAIN s
  PROVE  /\ RemoveAt(s, k) \in Seq(S)
         /\ Len(s) \in Nat /\ DOMAIN s = 1..Len(s)
         /\ DOMAIN RemoveAt(s, k) = 1..(Len(s) - 1)
         /\ \A i \in 1..(Len(s) - 1) : RemoveAt(s, k)[i] = IF i < k THEN s[i] ELSE s[i + 1]
<1>1. Len(s) \in Nat /\ DOMAIN s = 1..Len(s) /\ k \in 1..Len(s) /\ \A i \in 1..Len(s) : s[i] \in S
  BY LenProperties, ElementOfSeq
<1> DEFINE a == SubSeq(s, 1, k - 1)
           b == SubSeq(s, k + 1, Len(s))
<1>2. /\ a \in Seq(S) /\ Len(a) = k - 1 /\ \A i \in 1..(k - 1) : a[i] = s[i]
  <2>1. /\ a \in Seq(S) /\ Len(a) = IF 1 <= k - 1 THEN (k - 1) - 1 + 1 ELSE 0
        /\ \A i \in 1..((k - 1) - 1 + 1) : a[i] = s[1 + i - 1]
    BY <1>1, SubSeqProperties, k - 1 \in Int, \A i \in 1..(k - 1) : s[i] \in S
  <2> HIDE DEF a
  <2>2. QED
    BY <2>1, <1>1
<1>3. /\ b \in Seq(S) /\ Len(b) = Len(s) - k /\ \A i \in 1..(Len(s) - k) : b[i] = s[k + i]
  <2>1. /\ b \in Seq(S) /\ Len(b) = IF k + 1 <= Len(s) THEN Len(s) - (k + 1) + 1 ELSE 0
        /\ \A i \in 1..(Len(s) - (k + 1) + 1) : b[i] = s[(k + 1) + i - 1]
    BY <1>1, SubSeqProperties, k + 1 \in Int, \A i \in (k + 1)..Len(s) : s[i] \in S
  <2> HIDE DEF b
  <2>2. (IF k + 1 <= Len(s) THEN Len(s) - (k + 1) + 1 ELSE 0) = Len(s) - k
    BY <1>1
  <2>3. ASSUME NEW i \in 1..(Len(s) - k)
        PROVE  b[i] = s[k + i]
    <3>1. i \in 1..(Len(s) - (k + 1) + 1) /\ (k + 1) + i - 1 = k + i
      BY <1>1
    <3>2. QED
      BY <2>1, <3>1
  <2>4. QED
    BY <2>1, <2>2, <2>3
<1>4. RemoveAt(s, k) = a \o b
  BY DEF RemoveAt
<1> HIDE DEF a, b
<1>5. /\ a \o b \in Seq(S) /\ Len(a \o b) = Len(s) - 1
      /\ \A i \in 1..(Len(s) - 1) : (a \o b)[i] = IF i <= k - 1 THEN a[i] ELSE b[i - (k - 1)]
  <2>1. /\ a \o b \in Seq(S) /\ Len(a \o b) = Len(a) + Len(b)
        /\ \A i \in 1..(Len(a) + Len(b)) : (a \o b)[i] = IF i <= Len(a) THEN a[i] ELSE b[i - Len(a)]
    BY <1>2, <1>3, ConcatProperties
  <2>2. Len(a) + Len(b) = Len(s) - 1 /\ Len(a) = k - 1
    BY <1>1, <1>2, <1>3
  <2>3. QED
    BY <2>1, <2>2
<1>6. DOMAIN (a \o b) = 1..(Len(s) - 1)
  BY <1>5, LenProperties
<1>7. ASSUME NEW i \in 1..(Len(s) - 1)
      PROVE  (a \o b)[i] = IF i < k THEN s[i] ELSE s[i + 1]
  <2>1. CASE i < k
    <3>1. i \in 1..(k - 1) /\ i <= k - 1
      BY <2>1, <1>1
    <3>2. QED
      BY <2>1, <3>1, <1>2, <1>5
  <2>2. CASE i >= k
    <3>1. i - (k - 1) \in 1..(Len(s) - k) /\ k + (i - (k - 1)) = i + 1 /\ ~(i <= k - 1) /\ ~(i < k)
      BY <2>2, <1>1
    <3>2. (a \o b)[i] = b[i - (k - 1)]
      BY <3>1, <1>5
    <3>3. b[i - (k - 1)] = s[i + 1]
      BY <3>1, <1>3
    <3>4. QED
      BY <3>1, <3>2, <3>3
  <2>3. i < k \/ i >= k
    BY <1>1
  <2>4. QED
    BY <2>1, <2>2, <2>3
<1>8. QED
  BY <1>1, <1>4, <1>5, <1>6, <1>7
\* The inbox after an event was emitted: what was there, and the event for each listener.
Emitted(type, status) ==
  /\ inbox' \in Seq(Event)
  /\ Len(inbox) \in Nat /\ DOMAIN inbox = 1..Len(inbox)
  /\ Len(inbox') \in Nat /\ DOMAIN inbox' = 1..Len(inbox')
  /\ Len(inbox) <= Len(inbox')
  /\ listeners # {} => Len(inbox) < Len(inbox')
  /\ listeners = {} => Len(inbox) = Len(inbox')
  /\ \A i \in 1..Len(inbox) : inbox'[i] = inbox[i]
  /\ \A i \in 1..Len(inbox') : i > Len(inbox) =>
       inbox'[i].type = type /\ inbox'[i].status = status /\ inbox'[i].to \in listeners

\* Emit appends one event for each listener.
LEMMA EmitFacts ==
  ASSUME TypeInv, NEW type \in SyncEventType, NEW status \in ConnectionStatus \cup {"none"}, Emit(type, status)
  PROVE  Emitted(type, status)
<1> DEFINE n == Cardinality(listeners)
           e(k) == [type |-> type, status |-> status, to |-> SetToSeq(listeners)[k]]
           new == [k \in 1..n |-> e(k)]
<1>1. listeners \subseteq Run /\ Len(effects) \in Nat
  BY DEF TypeInv, StateOK
<1>2. IsFiniteSet(listeners)
  <2>1. IsFiniteSet(1..Len(effects)) /\ listeners \in SUBSET (1..Len(effects))
    BY <1>1, FS_Interval DEF Run
  <2>2. QED
    BY <2>1, FS_Subset
<1>3. /\ n \in Nat /\ (listeners # {} => n > 0) /\ (listeners = {} => n = 0)
      /\ \A k \in 1..n : SetToSeq(listeners)[k] \in listeners
  BY <1>2, ListenersInOrder, FS_EmptySet
<1>4. inbox \in Seq(Event) /\ Len(inbox) \in Nat /\ DOMAIN inbox = 1..Len(inbox)
  BY LenProperties DEF TypeInv, InboxOK
<1>5. ASSUME NEW k \in 1..n
      PROVE  e(k) \in Event /\ e(k).type = type /\ e(k).status = status /\ e(k).to \in listeners
  <2>1. SetToSeq(listeners)[k] \in listeners
    BY <1>3
  <2>2. \A g \in Run : g \in Nat
    BY DEF Run
  <2>3. QED
    BY <2>1, <2>2, <1>1 DEF Event
<1>6. inbox' = inbox \o new
  BY DEF Emit
<1> HIDE DEF n, e
<1>7. new \in Seq(Event)
  BY <1>3, <1>5, IsASeq
<1>8. Len(new) = n /\ \A k \in 1..n : new[k] = e(k)
  BY <1>3
<1> HIDE DEF new
<1>9. /\ inbox \o new \in Seq(Event)
      /\ Len(inbox \o new) = Len(inbox) + Len(new)
      /\ \A i \in 1..(Len(inbox) + Len(new)) :
           (inbox \o new)[i] = IF i <= Len(inbox) THEN inbox[i] ELSE new[i - Len(inbox)]
  BY <1>4, <1>7, ConcatProperties
<1>10. Len(inbox') = Len(inbox) + n /\ DOMAIN inbox' = 1..Len(inbox')
  BY <1>6, <1>8, <1>9, LenProperties
<1>11. \A i \in 1..Len(inbox) : inbox'[i] = inbox[i]
  BY <1>3, <1>4, <1>6, <1>8, <1>9
<1>12. ASSUME NEW i \in 1..Len(inbox'), i > Len(inbox)
       PROVE  inbox'[i].type = type /\ inbox'[i].status = status /\ inbox'[i].to \in listeners
  <2>1. i - Len(inbox) \in 1..n /\ i \in 1..(Len(inbox) + Len(new)) /\ ~(i <= Len(inbox))
    BY <1>12, <1>3, <1>4, <1>8, <1>10
  <2>2. inbox'[i] = e(i - Len(inbox))
    BY <2>1, <1>6, <1>8, <1>9
  <2>3. QED
    BY <2>1, <2>2, <1>5
<1>13. /\ Len(inbox) <= Len(inbox') /\ Len(inbox') \in Nat
       /\ listeners # {} => Len(inbox) < Len(inbox')
       /\ listeners = {} => Len(inbox) = Len(inbox')
  <2>1. Len(inbox) \in Nat /\ n \in Nat /\ Len(inbox') = Len(inbox) + n
    BY <1>3, <1>4, <1>10
  <2>2. Len(inbox) <= Len(inbox') /\ Len(inbox') \in Nat
    BY <2>1
  <2>3. (n > 0 => Len(inbox) < Len(inbox')) /\ (n = 0 => Len(inbox) = Len(inbox'))
    BY <2>1
  <2>4. QED
    BY <2>2, <2>3, <1>3
<1>14. inbox' \in Seq(Event)
  BY <1>6, <1>9
<1>15. QED
  BY <1>4, <1>10, <1>11, <1>12, <1>13, <1>14 DEF Emitted

\* The inbox after the event at k was handled.
Handled(k) ==
  /\ inbox' \in Seq(Event)
  /\ Len(inbox) \in Nat /\ DOMAIN inbox = 1..Len(inbox)
  /\ DOMAIN inbox' = 1..(Len(inbox) - 1)
  /\ \A i \in 1..(Len(inbox) - 1) : inbox'[i] = IF i < k THEN inbox[i] ELSE inbox[i + 1]

\* Handle takes the event at k out.
LEMMA HandleFacts ==
  ASSUME TypeInv, NEW k \in DOMAIN inbox, Handle(k)
  PROVE  Handled(k)
<1>1. inbox \in Seq(Event) /\ inbox' = RemoveAt(inbox, k)
  BY DEF TypeInv, InboxOK, Handle
<1>2. QED
  BY <1>1, RemoveAtFacts DEF Handled

-----------------------------------------------------------------------------
(***************************************************************************)
(* Calls as they are asked for.                                            *)
(***************************************************************************)
\* The call c was made for the run g.
Asked(c, g) ==
  /\ c = NewCall(c.op, g, c.then, c.carry)
  /\ c.op \in OpsOf /\ ThenOK(c) /\ c.carry \in ConnectionStatus \cup {"none"}

\* A call that was just asked for has everything still to do.
LEMMA AskedFields ==
  ASSUME NEW c, NEW g, Asked(c, g)
  PROVE  c.by = g /\ c.todo = Parts(c.op) /\ c.got = <<>> /\ DOMAIN c.got = {} /\ c.ok /\ c.todo # {}
  BY DEF Asked, NewCall, Parts

\* The calls of every hook are calls of the native module.
LEMMA OpsKnown ==
  ASSUME hook \in AllHooks, NEW op \in OpsOf
  PROVE  op \in CallOps /\ Parts(op) \subseteq Part
<1>1. op \in CallOps
  BY DEF OpsOf, CallOps, ReadOps, AllHooks
<1>2. QED
  BY <1>1 DEF Part

\* A call that was just asked for is well formed.
LEMMA AskedOK ==
  ASSUME NEW c, NEW g, Asked(c, g), hook \in AllHooks, instance' = instance, g \in Run'
  PROVE  CallOK(c)'
<1>1. c.by = g /\ c.todo = Parts(c.op) /\ c.got = <<>> /\ c.ok = TRUE
  BY AskedFields
<1>2. <<>> = [f \in DOMAIN <<>> |-> <<>>[f]] /\ DOMAIN <<>> = {}
  OBVIOUS
<1>3. hook' = hook
  BY DEF hook
<1>4. c.op \in OpsOf' /\ ThenOK(c)'
  BY <1>3 DEF Asked, OpsOf, ThenOK
<1>5. c \in CallWith(<<>>)
  <2>1. c.op \in CallOps /\ Parts(c.op) \subseteq Part
    BY OpsKnown DEF Asked
  <2>2. g \in Nat
    BY DEF Run
  <2>3. c.then \in Nexts /\ c.carry \in ConnectionStatus \cup {"none"}
    BY DEF Asked, ThenOK
  <2>4. NewCall(c.op, g, c.then, c.carry) \in CallWith(<<>>)
    BY <2>1, <2>2, <2>3 DEF NewCall, CallWith
  <2>5. QED
    BY <2>4 DEF Asked
<1>6. QED
  BY <1>1, <1>2, <1>4, <1>5 DEF CallOK

\* The two ways a call is made.
LEMMA NewCallAsked ==
  ASSUME NEW op \in OpsOf, NEW g, NEW then, NEW carry \in ConnectionStatus \cup {"none"},
         then \in Nexts,
         then = "add" => hook \in {"useConnection", "useSyncStatus"} /\ op \in ReadOps,
         then = "enable" => hook = "SyncProvider" /\ op = "config"
  PROVE  Asked(NewCall(op, g, then, carry), g)
  BY DEF Asked, NewCall, ThenOK

\* A call nothing goes on with.
LEMMA AskAsked ==
  ASSUME NEW op \in OpsOf, NEW g
  PROVE  Asked(Ask(op, g), g)
<1>1. "nothing" \in Nexts /\ "none" \in ConnectionStatus \cup {"none"}
  BY DEF Nexts
<1>2. QED
  BY <1>1, NewCallAsked DEF Ask

\* The calls an effect starts with.
LEMMA StartAsked ==
  ASSUME hook \in AllHooks, NEW g, NEW c \in StartCalls(g)
  PROVE  Asked(c, g)
<1> USE NewCallAsked, AskAsked DEF OpsOf, Nexts, ReadOps, ConnectionStatus
<1>1. CASE hook = "useConnection"
  BY <1>1 DEF StartCalls, UseConnectionStart
<1>2. CASE hook = "useSyncStatus"
  BY <1>2 DEF StartCalls, UseSyncStatusStart
<1>3. CASE hook = "useSyncQueue"
  BY <1>3 DEF StartCalls, UseSyncQueueStart
<1>4. CASE hook = "useOfflineQueue"
  BY <1>4 DEF StartCalls, UseOfflineQueueStart
<1>5. CASE hook = "useSyncSnapshot"
  BY <1>5 DEF StartCalls, UseSyncSnapshotStart
<1>6. CASE hook = "useSyncEvents"
  BY <1>6 DEF StartCalls, UseSyncEventsStart
<1>7. CASE hook = "useSyncConfig"
  BY <1>7 DEF StartCalls, UseSyncConfigStart
<1>8. CASE hook = "useAutoSync"
  BY <1>8 DEF StartCalls, UseAutoSyncStart
<1>9. CASE hook = "SyncProvider"
  BY <1>9 DEF StartCalls, SyncProviderStart
<1>10. QED
  BY <1>1, <1>2, <1>3, <1>4, <1>5, <1>6, <1>7, <1>8, <1>9 DEF AllHooks

\* The calls an event asks for.
LEMMA EventAsked ==
  ASSUME hook \in AllHooks, NEW e, EventOK(e), NEW c \in EventCalls(e)
  PROVE  Asked(c, e.to)
<1> USE NewCallAsked, AskAsked DEF OpsOf, Nexts, ReadOps, ConnectionStatus, When
<1>1. CASE hook = "useConnection"
  BY <1>1 DEF EventCalls, UseConnectionEvent, EventOK, Event
<1>2. CASE hook = "useSyncStatus"
  BY <1>2 DEF EventCalls, UseSyncStatusEvent
<1>3. CASE hook = "useSyncQueue"
  BY <1>3 DEF EventCalls, UseSyncQueueEvent
<1>4. CASE hook = "useOfflineQueue"
  BY <1>4 DEF EventCalls, UseOfflineQueueEvent
<1>5. CASE hook = "useSyncSnapshot"
  BY <1>5 DEF EventCalls, UseSyncSnapshotEvent
<1>6. CASE hook = "useSyncEvents"
  BY <1>6 DEF EventCalls
<1>7. CASE hook = "useSyncConfig"
  BY <1>7 DEF EventCalls, UseSyncConfigEvent
<1>8. CASE hook = "useAutoSync"
  BY <1>8 DEF EventCalls, UseAutoSyncEvent
<1>9. CASE hook = "SyncProvider"
  BY <1>9 DEF EventCalls, SyncProviderEvent
<1>10. QED
  BY <1>1, <1>2, <1>3, <1>4, <1>5, <1>6, <1>7, <1>8, <1>9 DEF AllHooks

\* The calls of a cleanup.
LEMMA CleanupAsked ==
  ASSUME TypeInv, Up, NEW c \in CleanupCalls
  PROVE  Asked(c, Current) /\ c.op \in {"remove", "disable"}
<1>1. hook \in AllHooks /\ (ownsBackgroundRef => hook = "SyncProvider")
  BY HooksAssumption DEF TypeInv, StateOK, hook
<1>2. "remove" \in OpsOf /\ (hook = "SyncProvider" => "disable" \in OpsOf)
  BY <1>1 DEF OpsOf, AllHooks
<1>3. QED
  BY <1>1, <1>2, AskAsked DEF CleanupCalls, When, Ask, NewCall

-----------------------------------------------------------------------------
(***************************************************************************)
(* Types of what is shown and of what is under way.                        *)
(***************************************************************************)
\* The fields of the view.
Shows == {"connection", "size", "items", "last", "syncing", "paused", "config", "loading"}

\* The instance is one of the hooks.
LEMMA InstanceTyped ==
  ASSUME StateOK
  PROVE  /\ hook \in AllHooks
         /\ instance.effects \in Nat /\ instance.changes \in Nat /\ instance.faults \in Nat
  BY HooksAssumption DEF StateOK, hook

\* The fields of the view.
LEMMA ViewTyped ==
  ASSUME NEW v \in View
  PROVE  DOMAIN v = Shows
  BY DEF View, Shows

\* An answer of the right type gives a view of the right type.
LEMMA ShowingTyped ==
  ASSUME view \in View, NEW got, \A f \in DOMAIN got : got[f] \in Values(f)
  PROVE  Showing(got) \in View
<1> DEFINE s(f) == IF f \in DOMAIN got THEN got[f] ELSE view[f]
<1>1. Showing(got) = [f \in Shows |-> s(f)]
  BY ViewTyped DEF Showing
<1>2. /\ s("connection") \in ConnectionStatus
      /\ s("size") \in Nat /\ s("items") \in Nat /\ s("last") \in Nat /\ s("config") \in Nat
      /\ s("syncing") \in BOOLEAN /\ s("paused") \in BOOLEAN /\ s("loading") \in BOOLEAN
  BY DEF Values, View
<1> HIDE DEF s
<1>3. QED
  BY <1>1, <1>2 DEF View, Shows

\* A read that answered brought the fields of its kind.
LEMMA Brought ==
  ASSUME NEW c, CallOK(c), Done(c), c.op \in ReadOps, c.ok
  PROVE  /\ DOMAIN c.got = Parts(c.op)
         /\ \A f \in Parts(c.op) : c.got[f] \in Values(f)
  BY DEF CallOK, Done

\* So does every hook once a read has settled.
LEMMA ViewAfterTyped ==
  ASSUME StateOK, NEW c, CallOK(c), Done(c), c.op \in ReadOps
  PROVE  ViewAfter(c) \in View
<1>1. view \in View /\ hook \in AllHooks
  BY InstanceTyped DEF StateOK
<1>2. c.ok => Showing(c.got) \in View
  BY <1>1, Brought, ShowingTyped
<1>3. CASE hook = "useConnection"
  <2>1. c.op = "connection"
    BY <1>3 DEF CallOK, OpsOf, ReadOps
  <2>2. c.ok => c.got.connection \in ConnectionStatus
    BY <2>1, Brought DEF Parts, Values
  <2>3. c.carry \in ConnectionStatus \cup {"none"}
    BY DEF CallOK, CallWith
  <2>4. QED
    BY <1>1, <1>3, <2>2, <2>3 DEF ViewAfter, UseConnectionSettle, View
<1>4. CASE hook = "useSyncStatus"
  <2>1. c.op = "last"
    BY <1>4 DEF CallOK, OpsOf, ReadOps
  <2>2. c.ok => c.got.last \in Nat
    BY <2>1, Brought DEF Parts, Values
  <2>3. QED
    BY <1>1, <1>4, <2>2 DEF ViewAfter, UseSyncStatusSettle, View
<1>5. CASE hook = "useSyncQueue"
  BY <1>1, <1>2, <1>5 DEF ViewAfter, UseSyncQueueSettle, View
<1>6. CASE hook = "useOfflineQueue"
  BY <1>1, <1>2, <1>6 DEF ViewAfter, UseOfflineQueueSettle
<1>7. CASE hook = "useSyncSnapshot"
  BY <1>1, <1>2, <1>7 DEF ViewAfter, UseSyncSnapshotSettle
<1>8. CASE hook = "useSyncConfig"
  BY <1>1, <1>2, <1>8 DEF ViewAfter, UseSyncConfigSettle, View
<1>9. CASE hook = "SyncProvider"
  BY <1>1, <1>2, <1>9 DEF ViewAfter, SyncProviderSettle
<1>10. CASE hook \in {"useSyncEvents", "useAutoSync"}
  BY <1>1, <1>10 DEF ViewAfter
<1>11. QED
  BY <1>1, <1>3, <1>4, <1>5, <1>6, <1>7, <1>8, <1>9, <1>10 DEF AllHooks

\* Well-formed calls put in leave all calls well formed.
LEMMA CallsMove ==
  ASSUME TypeInv, NEW out, NEW in, Moves(out, in), instance' = instance, Run \subseteq Run',
         \A d \in in : CallOK(d)'
  PROVE  CallsOK'
<1>1. ASSUME NEW c, CallOK(c)
      PROVE  CallOK(c)'
  <2>1. hook' = hook
    BY DEF hook
  <2>2. OpsOf' = OpsOf /\ (ThenOK(c) => ThenOK(c)')
    BY <2>1 DEF OpsOf, ThenOK
  <2>3. QED
    BY <1>1, <2>2 DEF CallOK
<1>2. QED
  BY <1>1 DEF Moves, TypeInv, CallsOK

\* Calls that are issued are well formed.
LEMMA CallsAsked ==
  ASSUME TypeInv, NEW S, NEW g, calls' = Issue(S), \A c \in S : Asked(c, g),
         instance' = instance, Run \subseteq Run', g \in Run'
  PROVE  CallsOK' /\ Moves({}, S)
<1>1. Moves({}, S)
  BY IssueMoves DEF TypeInv, CallsOK
<1>2. QED
  BY <1>1, AskedOK, CallsMove, InstanceTyped DEF TypeInv

\* So are those a continuation goes on with.
LEMMA CallsGoOn ==
  ASSUME TypeInv, NEW c \in BagToSet(calls), Done(c), NEW ask, GoesOn(c, ask), \A d \in ask : Asked(d, c.by),
         instance' = instance, Run' = Run
  PROVE  CallsOK' /\ Moves({c}, ask)
<1>1. CallOK(c) /\ c.by \in Run
  BY DEF TypeInv, CallsOK, CallOK
<1>2. c \notin ask
  BY AskedFields DEF Done
<1>3. Moves({c}, ask)
  BY <1>2, GoesOnMoves DEF TypeInv, CallsOK
<1>4. QED
  BY <1>1, <1>3, AskedOK, CallsMove, InstanceTyped DEF TypeInv

\* An inbox that is left alone stays well formed.
LEMMA InboxMonotone ==
  ASSUME InboxOK, inbox' = inbox, Run \subseteq Run'
  PROVE  InboxOK'
  BY DEF InboxOK, EventOK

\* An event in the inbox was there before, or is the one just emitted.
LEMMA OldOrNew ==
  ASSUME NEW type, NEW status, Emitted(type, status), NEW i \in DOMAIN inbox'
  PROVE  \/ i \in DOMAIN inbox /\ inbox'[i] = inbox[i]
         \/ i > Len(inbox) /\ inbox'[i].type = type /\ inbox'[i].status = status /\ inbox'[i].to \in listeners
<1>1. i \in 1..Len(inbox') /\ Len(inbox') \in Nat /\ Len(inbox) \in Nat
  BY DEF Emitted
<1>2. i \in Nat /\ 1 <= i
  BY <1>1
<1>3. CASE i <= Len(inbox)
  <2>1. i \in 1..Len(inbox)
    BY <1>1, <1>2, <1>3
  <2>2. QED
    BY <2>1 DEF Emitted
<1>4. CASE i > Len(inbox)
  BY <1>1, <1>4 DEF Emitted
<1>5. QED
  BY <1>1, <1>2, <1>3, <1>4

\* Emitting keeps the inbox well formed.
LEMMA InboxEmitted ==
  ASSUME TypeInv, NEW type, NEW status, Emitted(type, status), Run' = Run,
         type = "CONNECTION_CHANGED" => status \in ConnectionStatus
  PROVE  InboxOK'
<1>1. ASSUME NEW i \in DOMAIN inbox'
      PROVE  EventOK(inbox[i])'
  <2>1. inbox'[i] \in Event
    BY ElementOfSeq DEF Emitted
  <2>2. CASE i \in DOMAIN inbox /\ inbox'[i] = inbox[i]
    BY <2>2 DEF TypeInv, InboxOK, EventOK
  <2>3. CASE inbox'[i].type = type /\ inbox'[i].status = status /\ inbox'[i].to \in listeners
    BY <2>1, <2>3 DEF EventOK, TypeInv, StateOK
  <2>4. QED
    BY <2>2, <2>3, OldOrNew
<1>2. QED
  BY <1>1 DEF InboxOK, Emitted

\* Handling keeps the inbox well formed.
LEMMA InboxHandled ==
  ASSUME TypeInv, NEW k \in DOMAIN inbox, Handled(k), Run' = Run
  PROVE  InboxOK'
<1>1. ASSUME NEW i \in DOMAIN inbox'
      PROVE  \E j \in DOMAIN inbox : inbox'[i] = inbox[j]
  BY DEF Handled
<1>2. QED
  BY <1>1 DEF InboxOK, Handled, EventOK, TypeInv

-----------------------------------------------------------------------------
(***************************************************************************)
(* What each action does to the calls.                                     *)
(***************************************************************************)
\* The runs of the effect.
LEMMA EffectsTyped ==
  ASSUME StateOK
  PROVE  /\ effects \in Seq(Effect) /\ Len(effects) \in Nat /\ Current \in Nat
         /\ \A g \in Run : g \in 1..Len(effects) /\ effects[g] \in Effect
         /\ Up => Current \in Run
<1>1. effects \in Seq(Effect) /\ Len(effects) \in Nat
  BY LenProperties DEF StateOK
<1>2. \A g \in Run : g \in 1..Len(effects) /\ effects[g] \in Effect
  BY <1>1, ElementOfSeq DEF Run
<1>3. Current \in Nat /\ (Up => Current \in Run)
  BY <1>1 DEF Current, Run, Up
<1>4. QED
  BY <1>1, <1>2, <1>3

\* The effect runs: one run more, and its calls.
LEMMA MountCalls ==
  ASSUME TypeInv, Mount
  PROVE  /\ Current' = Current + 1 /\ Run' = Run \cup {Current'} /\ Current' \notin Run
         /\ effects' \in Seq(Effect)
         /\ \A g \in Run : effects'[g] = effects[g]
         /\ effects'[Current'] = [ended |-> FALSE, subscribed |-> FALSE, late |-> {}]
         /\ Moves({}, When(available, StartCalls(Current')))
         /\ \A c \in When(available, StartCalls(Current')) : Asked(c, Current')
         /\ CallsOK'
<1> DEFINE new == [ended |-> FALSE, subscribed |-> FALSE, late |-> {}]
<1>1. effects \in Seq(Effect) /\ Len(effects) \in Nat /\ hook \in AllHooks
  BY EffectsTyped, InstanceTyped DEF TypeInv
<1>2. new \in Effect /\ effects' = Append(effects, new)
  BY DEF Effect, Mount
<1>3. /\ effects' \in Seq(Effect) /\ Len(effects') = Len(effects) + 1
      /\ \A i \in 1..Len(effects) : effects'[i] = effects[i]
      /\ effects'[Len(effects) + 1] = new
  BY <1>1, <1>2, AppendProperties
<1>4. /\ Current' = Current + 1 /\ Run' = Run \cup {Current'} /\ Current' \notin Run
      /\ \A g \in Run : effects'[g] = effects[g]
      /\ effects'[Current'] = new
  BY <1>1, <1>3 DEF Current, Run
<1>5. calls' = Issue(When(available, StartCalls(Current'))) /\ instance' = instance
  BY <1>4 DEF Mount, Ran, fixed
<1>6. \A c \in When(available, StartCalls(Current')) : Asked(c, Current')
  BY <1>1, StartAsked DEF When
<1>7. CallsOK' /\ Moves({}, When(available, StartCalls(Current')))
  BY <1>4, <1>5, <1>6, CallsAsked
<1>8. QED
  BY <1>3, <1>4, <1>6, <1>7

\* The cleanup: the last run has ended, and its listener and background sync are given back.
LEMMA UnmountCalls ==
  ASSUME TypeInv, Unmount
  PROVE  /\ Current' = Current /\ Run' = Run /\ Current \in Run
         /\ effects' \in Seq(Effect) /\ Len(effects') = Len(effects)
         /\ \A g \in Run \ {Current} : effects'[g] = effects[g]
         /\ effects'[Current].ended
         /\ effects'[Current].subscribed = effects[Current].subscribed
         /\ effects'[Current].late = When(~effects[Current].subscribed, {"listener"})
                                       \cup When(~ownsBackgroundRef, {"background"})
         /\ Moves({}, CleanupCalls)
         /\ \A c \in CleanupCalls : Asked(c, Current) /\ c.op \in {"remove", "disable"}
         /\ CallsOK'
<1> DEFINE late == When(~effects[Current].subscribed, {"listener"}) \cup When(~ownsBackgroundRef, {"background"})
           e == [effects[Current] EXCEPT !.ended = TRUE, !.late = late]
<1>1. /\ effects \in Seq(Effect) /\ Len(effects) \in Nat /\ Current \in 1..Len(effects) /\ Up
      /\ effects[Current] \in Effect /\ Current \in Run
  BY EffectsTyped DEF TypeInv, Unmount
<1>2. e \in Effect /\ e.ended /\ e.subscribed = effects[Current].subscribed /\ e.late = late
  BY <1>1 DEF Effect, When
<1>3. effects' = [effects EXCEPT ![Current] = e]
  BY <1>1 DEF Unmount, Effect
<1> HIDE DEF e
<1>4. /\ effects' \in Seq(Effect) /\ Len(effects') = Len(effects)
      /\ \A j \in 1..Len(effects) : effects'[j] = IF j = Current THEN e ELSE effects[j]
  BY <1>1, <1>2, <1>3, ExceptSeq
<1>5. Current' = Current /\ Run' = Run
  BY <1>4 DEF Current, Run
<1>6. \A c \in CleanupCalls : Asked(c, Current) /\ c.op \in {"remove", "disable"}
  BY <1>1, CleanupAsked
<1>7. calls' = Issue(CleanupCalls) /\ instance' = instance
  BY DEF Unmount, fixed
<1>8. CallsOK' /\ Moves({}, CleanupCalls)
  BY <1>1, <1>5, <1>6, <1>7, CallsAsked
<1>9. /\ \A g \in Run \ {Current} : effects'[g] = effects[g]
      /\ effects'[Current] = e
  BY <1>1, <1>4 DEF Run
<1>10. QED
  BY <1>1, <1>2, <1>4, <1>5, <1>6, <1>8, <1>9

\* The calls the component makes.
RefreshCall == Ask(IF hook = "useSyncQueue" THEN "queue" ELSE "config", Current)
ConfigureCall == NewCall("configure", Current, "config", "none")
TickCall == NewCall("connection", Current, "flush", "none")

\* refresh() makes one read.
LEMMA RefreshCalls ==
  ASSUME TypeInv, Refresh
  PROVE  /\ Moves({}, {RefreshCall}) /\ Asked(RefreshCall, Current) /\ CallsOK' /\ Run' = Run
         /\ RefreshCall.op \in {"queue", "config"} /\ RefreshCall.then = "nothing"
<1>1. Current \in Run /\ Run' = Run /\ instance' = instance
  BY EffectsTyped DEF Refresh, fixed, Run, TypeInv
<1>2. Asked(RefreshCall, Current)
  BY AskAsked DEF Refresh, OpsOf, RefreshCall
<1>3. calls' = Issue({RefreshCall})
  BY DEF Refresh, Ran, RefreshCall
<1>4. RefreshCall.op \in {"queue", "config"} /\ RefreshCall.then = "nothing"
  BY DEF RefreshCall, Ask, NewCall
<1>5. QED
  BY <1>1, <1>2, <1>3, <1>4, CallsAsked

\* setConfig makes one configure.
LEMMA SetConfigCalls ==
  ASSUME TypeInv, SetConfig
  PROVE  /\ Moves({}, {ConfigureCall}) /\ Asked(ConfigureCall, Current) /\ CallsOK' /\ Run' = Run
         /\ ConfigureCall.op = "configure" /\ ConfigureCall.then = "config"
<1>1. Current \in Run /\ Run' = Run /\ instance' = instance /\ hook = "useSyncConfig"
  BY EffectsTyped DEF SetConfig, fixed, Run, TypeInv
<1>2. Asked(ConfigureCall, Current)
  BY <1>1, NewCallAsked DEF OpsOf, ConfigureCall, Nexts
<1>3. calls' = Issue({ConfigureCall})
  BY DEF SetConfig, Ran, ConfigureCall
<1>4. ConfigureCall.op = "configure" /\ ConfigureCall.then = "config"
  BY DEF ConfigureCall, NewCall
<1>5. QED
  BY <1>1, <1>2, <1>3, <1>4, CallsAsked

\* The interval makes one read of the connection.
LEMMA TickCalls ==
  ASSUME TypeInv, Tick
  PROVE  /\ Moves({}, {TickCall}) /\ Asked(TickCall, Current) /\ CallsOK' /\ Run' = Run
         /\ TickCall.op = "connection" /\ TickCall.then = "flush"
<1>1. Current \in Run /\ Run' = Run /\ instance' = instance /\ hook = "useAutoSync"
  BY EffectsTyped DEF Tick, fixed, Run, TypeInv
<1>2. Asked(TickCall, Current)
  BY <1>1, NewCallAsked DEF OpsOf, TickCall, Nexts
<1>3. calls' = Issue({TickCall})
  BY DEF Tick, TickCall
<1>4. TickCall.op = "connection" /\ TickCall.then = "flush"
  BY DEF TickCall, NewCall
<1>5. QED
  BY <1>1, <1>2, <1>3, <1>4, CallsAsked

\* The callback of a listener makes the calls its event asks for.
LEMMA HandleCalls ==
  ASSUME TypeInv, NEW k \in DOMAIN inbox, Handle(k)
  PROVE  /\ Moves({}, EventCalls(inbox[k])) /\ CallsOK' /\ Run' = Run
         /\ \A c \in EventCalls(inbox[k]) : Asked(c, inbox[k].to)
         /\ EventOK(inbox[k])
<1>1. Run' = Run /\ instance' = instance /\ hook \in AllHooks
  BY InstanceTyped DEF Handle, fixed, Run, TypeInv
<1>2. EventOK(inbox[k]) /\ inbox[k].to \in Run
  BY DEF TypeInv, InboxOK, EventOK
<1>3. \A c \in EventCalls(inbox[k]) : Asked(c, inbox[k].to)
  BY <1>1, <1>2, EventAsked
<1>4. calls' = Issue(EventCalls(inbox[k]))
  BY DEF Handle
<1>5. QED
  BY <1>1, <1>2, <1>3, <1>4, CallsAsked

\* The call after it was read in part, executed, or rejected.
ReadOf(c, part) == [c EXCEPT !.todo = @ \ {part}, !.got = Extended(c.got, part, world[part])]
Executed(c) == [c EXCEPT !.todo = {}]
Rejected(c) == [c EXCEPT !.todo = {}, !.ok = FALSE]

\* A call of which the parts to do, the answer or the outcome were replaced.
LEMMA CallChanged ==
  ASSUME NEW c, CallOK(c), instance' = instance, Run' = Run,
         NEW d, d \in CallWith(d.got), d.op = c.op, d.by = c.by, d.then = c.then,
         d.todo \subseteq c.todo, d.todo # {} => d.ok,
         d.got = [f \in DOMAIN d.got |-> d.got[f]],
         DOMAIN d.got \subseteq Parts(c.op), DOMAIN d.got # {} => c.op \in ReadOps,
         \A f \in DOMAIN d.got : d.got[f] \in Values(f),
         c.op \in ReadOps /\ d.ok => DOMAIN d.got = Parts(c.op) \ d.todo
  PROVE  CallOK(d)'
<1>1. hook' = hook
  BY DEF hook
<1>2. OpsOf' = OpsOf /\ ThenOK(c)' /\ c.op \in OpsOf /\ c.by \in Run /\ c.todo \subseteq Parts(c.op)
  BY <1>1 DEF OpsOf, ThenOK, CallOK
<1>3. ThenOK(d)'
  BY <1>2 DEF ThenOK
<1>4. QED
  BY <1>2, <1>3 DEF CallOK

\* Native answers a read with values of the right type.
LEMMA WorldValues ==
  ASSUME StateOK, NEW op \in ReadOps, NEW part \in Parts(op)
  PROVE  world[part] \in Values(part) /\ part \in Shows
  BY DEF StateOK, ReadOps, Parts, Values, World, Shows

\* The parts of a well-formed call.
LEMMA PartsKnown ==
  ASSUME NEW c, CallOK(c)
  PROVE  /\ c.op \in CallOps /\ c.by \in Run /\ Parts(c.op) \subseteq Part /\ c.todo \subseteq Parts(c.op)
         /\ c.ok \in BOOLEAN
  BY DEF CallOK, CallWith, Part

\* The call c was read in part and is d now.
ReadInPart(c, part, d) ==
  /\ c.op \in ReadOps /\ part \in c.todo /\ part \in Parts(c.op)
  /\ Moves({c}, {d}) /\ c # d
  /\ d.op = c.op /\ d.by = c.by /\ d.then = c.then /\ d.carry = c.carry /\ d.todo = c.todo \ {part} /\ d.ok = c.ok
  /\ DOMAIN d.got = DOMAIN c.got \cup {part} /\ d.got[part] = world[part]
  /\ \A f \in DOMAIN c.got \ {part} : d.got[f] = c.got[f]

\* A read is executed in part.
LEMMA ReadCalls ==
  ASSUME TypeInv, NEW c \in BagToSet(calls), NEW part \in c.todo, Read(c, part),
         Run' = Run, instance' = instance, NEW d, d = ReadOf(c, part)
  PROVE  CallsOK' /\ ReadInPart(c, part, d)
<1> DEFINE got == Extended(c.got, part, world[part])
<1>1. CallOK(c) /\ c.op \in ReadOps /\ part \in Parts(c.op) /\ c.ok \in BOOLEAN
  BY PartsKnown DEF TypeInv, CallsOK, CallOK, Read
<1>2. /\ DOMAIN got = DOMAIN c.got \cup {part}
      /\ got[part] = world[part]
      /\ \A f \in DOMAIN c.got \ {part} : got[f] = c.got[f]
      /\ got = [f \in DOMAIN got |-> got[f]]
  BY DEF Extended
<1>3. d = [c EXCEPT !.todo = c.todo \ {part}, !.got = got, !.ok = c.ok]
  BY <1>1 DEF ReadOf, CallOK, CallWith
<1> HIDE DEF got
<1>4. \A f \in DOMAIN got : got[f] \in Values(f)
  BY <1>1, <1>2, WorldValues DEF CallOK, TypeInv
<1>5. DOMAIN got \subseteq Parts(c.op) /\ c.todo \ {part} \subseteq Parts(c.op)
  BY <1>1, <1>2 DEF CallOK
<1>6. c.ok => DOMAIN got = Parts(c.op) \ (c.todo \ {part})
  BY <1>1, <1>2 DEF CallOK
<1>7. c.todo \ {part} \in SUBSET Part
  BY <1>1, PartsKnown
<1>8. /\ d.op = c.op /\ d.by = c.by /\ d.then = c.then /\ d.carry = c.carry /\ d.todo = c.todo \ {part}
      /\ d.got = got /\ d.ok = c.ok /\ CallOK(d)'
  <2>1. /\ d.op = c.op /\ d.by = c.by /\ d.then = c.then /\ d.carry = c.carry /\ d.todo = c.todo \ {part}
        /\ d.got = got /\ d.ok = c.ok /\ d \in CallWith(d.got)
    BY <1>1, <1>3, <1>7 DEF CallOK, CallWith
  <2>2. d.todo \subseteq c.todo /\ d.ok
    BY <1>1, <2>1 DEF CallOK
  <2>3. QED
    BY <1>1, <1>2, <1>4, <1>5, <1>6, <2>1, <2>2, CallChanged
<1>9. c # d /\ calls' = Replace(c, d)
  BY <1>8 DEF Read, ReadOf
<1>10. Moves({c}, {d})
  BY <1>9, ReplaceMoves DEF TypeInv, CallsOK
<1>11. CallsOK'
  BY <1>8, <1>10, CallsMove
<1>12. QED
  BY <1>1, <1>2, <1>8, <1>9, <1>10, <1>11 DEF ReadInPart

\* A write is executed and waited for.
LEMMA WriteCalls ==
  ASSUME TypeInv, NEW c \in BagToSet(calls), NEW part \in c.todo, Write(c, part), c.op \notin Swallowed,
         Run' = Run, instance' = instance, NEW d, d = Executed(c)
  PROVE  /\ Moves({c}, {d}) /\ CallsOK' /\ c # d
         /\ d.op = c.op /\ d.by = c.by /\ d.then = c.then /\ d.todo = {} /\ d.ok = c.ok /\ d.got = c.got
<1>1. CallOK(c) /\ c.op \notin ReadOps /\ c.ok \in BOOLEAN
  BY PartsKnown DEF TypeInv, CallsOK, Write
<1>2. d = [c EXCEPT !.todo = {}, !.got = c.got, !.ok = c.ok]
  BY <1>1 DEF Executed, CallOK, CallWith
<1>3. /\ d.op = c.op /\ d.by = c.by /\ d.then = c.then /\ d.todo = {}
      /\ d.got = c.got /\ d.ok = c.ok /\ CallOK(d)'
  <2>1. /\ d.op = c.op /\ d.by = c.by /\ d.then = c.then /\ d.todo = {}
        /\ d.got = c.got /\ d.ok = c.ok /\ d \in CallWith(d.got)
    BY <1>1, <1>2 DEF CallOK, CallWith
  <2>2. /\ DOMAIN c.got \subseteq Parts(c.op) /\ (DOMAIN c.got # {} => c.op \in ReadOps)
        /\ c.got = [f \in DOMAIN c.got |-> c.got[f]] /\ \A f \in DOMAIN c.got : c.got[f] \in Values(f)
    BY <1>1 DEF CallOK
  <2>3. QED
    BY <1>1, <2>1, <2>2, CallChanged
<1>4. c # d /\ calls' = Replace(c, d)
  BY <1>3 DEF Write, Executed
<1>5. Moves({c}, {d})
  BY <1>4, ReplaceMoves DEF TypeInv, CallsOK
<1>6. QED
  BY <1>3, <1>4, <1>5, CallsMove

\* A write is executed and nobody waits for it.
LEMMA SwallowedCalls ==
  ASSUME TypeInv, NEW c \in BagToSet(calls), NEW part, Write(c, part), c.op \in Swallowed,
         Run' = Run, instance' = instance
  PROVE  Moves({c}, {}) /\ CallsOK'
<1>1. Moves({c}, {})
  BY DropMoves DEF TypeInv, CallsOK, Write
<1>2. QED
  BY <1>1, CallsMove

\* A call is rejected.
LEMMA FailCalls ==
  ASSUME TypeInv, NEW c \in BagToSet(calls), Fail(c), NEW d, d = Rejected(c)
  PROVE  /\ Moves({c}, {d}) /\ CallsOK' /\ c # d
         /\ d.op = c.op /\ d.by = c.by /\ d.then = c.then /\ d.todo = {} /\ ~d.ok /\ d.got = c.got
         /\ Run' = Run
<1>1. CallOK(c) /\ Run' = Run /\ instance' = instance
  BY DEF TypeInv, CallsOK, Fail, Run, fixed
<1>2. d = [c EXCEPT !.todo = {}, !.got = c.got, !.ok = FALSE]
  BY <1>1 DEF Rejected, CallOK, CallWith
<1>3. /\ d.op = c.op /\ d.by = c.by /\ d.then = c.then /\ d.todo = {}
      /\ d.got = c.got /\ d.ok = FALSE /\ CallOK(d)'
  <2>1. /\ d.op = c.op /\ d.by = c.by /\ d.then = c.then /\ d.todo = {}
        /\ d.got = c.got /\ d.ok = FALSE /\ d \in CallWith(d.got)
    BY <1>1, <1>2 DEF CallOK, CallWith
  <2>2. /\ DOMAIN c.got \subseteq Parts(c.op) /\ (DOMAIN c.got # {} => c.op \in ReadOps)
        /\ c.got = [f \in DOMAIN c.got |-> c.got[f]] /\ \A f \in DOMAIN c.got : c.got[f] \in Values(f)
    BY <1>1 DEF CallOK
  <2>3. QED
    BY <1>1, <2>1, <2>2, CallChanged
<1>4. c # d /\ calls' = Replace(c, d)
  BY <1>3 DEF Fail, Rejected
<1>5. Moves({c}, {d})
  BY <1>4, ReplaceMoves DEF TypeInv, CallsOK
<1>6. QED
  BY <1>1, <1>3, <1>4, <1>5, CallsMove

\* The four ways native deals with a call, in terms of what is under way afterwards.
HasRead(c, part, d) ==
  /\ ReadInPart(c, part, d)
  /\ world' = world /\ listeners' = listeners
  /\ stale' = IF part = "syncing"
              THEN stale \cup When(world.closing \/ Pending(ClosingEvents), {part})
              ELSE IF Alone(c) /\ c.by = Current /\ Up /\ ~Ignored(part)
                   THEN stale \ {part} ELSE stale \cup {part}

HasWritten(c, d) ==
  /\ c.op \in {"add", "configure", "enable"} /\ c.todo # {}
  /\ Moves({c}, {d}) /\ c # d
  /\ d.op = c.op /\ d.by = c.by /\ d.then = c.then /\ d.todo = {} /\ d.ok = c.ok /\ d.got = c.got
  /\ listeners' = IF c.op = "add" THEN listeners \cup {c.by} ELSE listeners
  /\ world' = CASE c.op = "configure" -> [world EXCEPT !.config = @ + 1]
                [] c.op = "enable"    -> [world EXCEPT !.background = TRUE]
                [] OTHER              -> world
  /\ stale' = stale \cup When(c.op = "configure", {"config"})

HasDropped(c) ==
  /\ c.op \in Swallowed
  /\ Moves({c}, {})
  /\ listeners' = IF c.op = "remove" THEN listeners \ {c.by} ELSE listeners
  /\ world' = IF c.op = "disable" THEN [world EXCEPT !.background = FALSE] ELSE world
  /\ stale' = stale

HasFailed(c, d) ==
  /\ c.op \notin Swallowed /\ c.todo # {}
  /\ Moves({c}, {d}) /\ c # d
  /\ d.op = c.op /\ d.by = c.by /\ d.then = c.then /\ d.todo = {} /\ ~d.ok /\ d.got = c.got
  /\ world' = world /\ listeners' = listeners
  /\ stale' = stale \cup (Parts(c.op) \cap Shows)

\* What native leaves alone when it deals with a call.
LEMMA ExecuteFrame ==
  ASSUME NEW c, Execute(c) \/ Fail(c)
  PROVE  /\ fixed' = fixed /\ effects' = effects /\ refVars' = refVars /\ view' = view /\ local' = local
         /\ inbox' = inbox /\ changes' = changes /\ online' = online /\ flushed' = flushed
         /\ hook' = hook /\ Run' = Run /\ Current' = Current /\ Up' = Up /\ instance' = instance
         /\ available' = available
  BY DEF Execute, Fail, fixed, hook, Run, Current, Up

\* Native deals with a call in one of these four ways.
LEMMA Executes ==
  ASSUME TypeInv, NEW c \in BagToSet(calls), Execute(c) \/ Fail(c)
  PROVE  \/ \E part, d : HasRead(c, part, d)
         \/ \E d : HasWritten(c, d)
         \/ HasDropped(c)
         \/ \E d : HasFailed(c, d)
<1>1. Run' = Run /\ instance' = instance
  BY DEF Execute, Fail, Run, fixed
<1>2. CallOK(c) /\ c.op \in CallOps
  BY PartsKnown DEF TypeInv, CallsOK
<1>3. CASE Execute(c)
  <2>1. PICK part \in c.todo : Read(c, part) \/ Write(c, part)
    BY <1>3 DEF Execute
  <2>2. CASE Read(c, part)
    <3>1. PICK d : d = ReadOf(c, part)
      OBVIOUS
    <3>2. ReadInPart(c, part, d)
      BY <1>1, <2>1, <2>2, <3>1, ReadCalls
    <3>3. /\ world' = world /\ listeners' = listeners
          /\ stale' = IF part = "syncing"
                      THEN stale \cup When(world.closing \/ Pending(ClosingEvents), {part})
                      ELSE IF Alone(c) /\ c.by = Current /\ Up /\ ~Ignored(part)
                           THEN stale \ {part} ELSE stale \cup {part}
      BY <2>2 DEF Read
    <3>4. HasRead(c, part, d)
      BY <2>1, <3>2, <3>3 DEF HasRead
    <3>5. QED
      BY <3>4
  <2>3. CASE Write(c, part) /\ c.op \notin Swallowed
    <3>1. PICK d : d = Executed(c)
      OBVIOUS
    <3>2. /\ Moves({c}, {d}) /\ c # d
          /\ d.op = c.op /\ d.by = c.by /\ d.then = c.then /\ d.todo = {} /\ d.ok = c.ok /\ d.got = c.got
      BY <1>1, <2>1, <2>3, <3>1, WriteCalls
    <3>3. c.op \in {"add", "configure", "enable"}
      BY <1>2, <2>3 DEF Write, CallOps, Swallowed
    <3>4. /\ listeners' = IF c.op = "add" THEN listeners \cup {c.by} ELSE listeners
          /\ world' = CASE c.op = "configure" -> [world EXCEPT !.config = @ + 1]
                        [] c.op = "enable"    -> [world EXCEPT !.background = TRUE]
                        [] OTHER              -> world
          /\ stale' = stale \cup When(c.op = "configure", {"config"})
      BY <2>3, <3>3 DEF Write
    <3>5. HasWritten(c, d)
      BY <2>1, <3>2, <3>3, <3>4 DEF HasWritten
    <3>6. QED
      BY <3>5
  <2>4. CASE Write(c, part) /\ c.op \in Swallowed
    <3>1. Moves({c}, {})
      BY <1>1, <2>4, SwallowedCalls
    <3>2. /\ listeners' = IF c.op = "remove" THEN listeners \ {c.by} ELSE listeners
          /\ world' = IF c.op = "disable" THEN [world EXCEPT !.background = FALSE] ELSE world
          /\ stale' = stale
      BY <2>4 DEF Write, Swallowed, When
    <3>3. QED
      BY <2>4, <3>1, <3>2 DEF HasDropped
  <2>5. QED
    BY <2>1, <2>2, <2>3, <2>4
<1>4. CASE Fail(c)
  <2>1. PICK d : d = Rejected(c)
    OBVIOUS
  <2>2. /\ Moves({c}, {d}) /\ c # d
        /\ d.op = c.op /\ d.by = c.by /\ d.then = c.then /\ d.todo = {} /\ ~d.ok /\ d.got = c.got
    BY <1>4, <2>1, FailCalls
  <2>3. c.op \notin Swallowed /\ c.todo # {} /\ world' = world /\ listeners' = listeners
    BY <1>4 DEF Fail, nativeVars
  <2>4. stale' = stale \cup (Parts(c.op) \cap Shows)
    BY <1>4, ViewTyped DEF Fail, TypeInv, StateOK
  <2>5. QED
    BY <2>2, <2>3, <2>4 DEF HasFailed
<1>5. QED
  BY <1>3, <1>4

\* What a continuation goes on with.
AfterRead(c) ==
  CASE c.then = "add"    -> When(~Cancelled(c.by), {Ask("add", c.by)})
    [] c.then = "enable" -> {Ask(IF option THEN "enable" ELSE "add", c.by)}
    [] OTHER             -> {}
AfterConfigure(c) ==
  When(c.ok \/ hook = "SyncProvider",
       {NewCall("config", c.by, IF hook = "SyncProvider" /\ c.ok THEN "enable" ELSE "nothing", "none")})
AfterEnable(c) == When(c.ok, {Ask("add", c.by)})
AfterAdd(c) == When(c.ok /\ hook = "useSyncEvents" /\ effects[c.by].ended, {Ask("remove", c.by)})
AfterStatus(c) ==
  When(c.ok /\ c.got.connection # "DISCONNECTED", {NewCall("syncing", c.by, "flush", "none")})
AfterSyncing(c) == When(c.ok /\ ~c.got.syncing /\ ~Cancelled(c.by), {Ask("flush", c.by)})

\* A call under way is well formed.
LEMMA FromBag ==
  ASSUME TypeInv, NEW c \in BagToSet(calls)
  PROVE  CallOK(c) /\ hook \in AllHooks /\ c.op \in OpsOf /\ c.by \in Run /\ calls[c] \in Nat /\ calls[c] > 0
<1>1. CallOK(c) /\ hook \in AllHooks
  BY InstanceTyped DEF TypeInv, CallsOK
<1>2. calls[c] \in {n \in Nat : n > 0}
  BY DEF TypeInv, CallsOK, IsABag, BagToSet
<1>3. QED
  BY <1>1, <1>2 DEF CallOK

\* A read has settled.
LEMMA ReadSettles ==
  ASSUME TypeInv, NEW c \in BagToSet(calls), SettleRead(c)
  PROVE  /\ Moves({c}, AfterRead(c)) /\ CallsOK' /\ Run' = Run
         /\ \A d \in AfterRead(c) : /\ Asked(d, c.by) /\ d.then = "nothing" /\ d.op \in {"add", "enable"}
                                    /\ c.then \in {"add", "enable"}
                                    /\ d.op = "enable" => c.then = "enable"
<1>1. CallOK(c) /\ hook \in AllHooks /\ Run' = Run /\ instance' = instance
  BY FromBag DEF SettleRead, fixed, Run
<1>2. "add" \in OpsOf /\ (hook = "SyncProvider" => "enable" \in OpsOf)
  BY <1>1 DEF AllHooks, OpsOf
<1>3. c.then = "enable" => hook = "SyncProvider"
  BY <1>1 DEF CallOK, ThenOK
<1>4. \A d \in AfterRead(c) : Asked(d, c.by) /\ d.then = "nothing" /\ d.op \in {"add", "enable"}
                              /\ c.then \in {"add", "enable"} /\ (d.op = "enable" => c.then = "enable")
  BY <1>2, <1>3, AskAsked DEF AfterRead, When, Ask, NewCall
<1>5. GoesOn(c, AfterRead(c)) /\ Done(c)
  BY DEF SettleRead, AfterRead
<1>6. QED
  BY <1>1, <1>4, <1>5, CallsGoOn

\* configureSync has settled.
LEMMA ConfigureSettles ==
  ASSUME TypeInv, NEW c \in BagToSet(calls), SettleConfigure(c)
  PROVE  /\ Moves({c}, AfterConfigure(c)) /\ CallsOK' /\ Run' = Run
         /\ \A d \in AfterConfigure(c) : /\ Asked(d, c.by) /\ d.op = "config"
                                         /\ d.then \in {"enable", "nothing"}
<1>1. CallOK(c) /\ hook \in AllHooks /\ Run' = Run /\ instance' = instance /\ c.op = "configure"
  BY FromBag DEF SettleConfigure, fixed, Run
<1>2. "config" \in OpsOf /\ "none" \in ConnectionStatus \cup {"none"}
  BY <1>1 DEF CallOK, AllHooks, OpsOf
<1>3. \A d \in AfterConfigure(c) : Asked(d, c.by) /\ d.op = "config" /\ d.then \in {"enable", "nothing"}
  <2>1. Asked(NewCall("config", c.by, "nothing", "none"), c.by)
    BY <1>2, NewCallAsked DEF Nexts
  <2>2. hook = "SyncProvider" => Asked(NewCall("config", c.by, "enable", "none"), c.by)
    BY <1>2, NewCallAsked DEF Nexts
  <2> DEFINE then == IF hook = "SyncProvider" /\ c.ok THEN "enable" ELSE "nothing"
             d == NewCall("config", c.by, then, "none")
  <2>3. then \in {"enable", "nothing"} /\ d.op = "config" /\ d.then = then /\ Asked(d, c.by)
    BY <2>1, <2>2 DEF NewCall
  <2>4. AfterConfigure(c) \subseteq {d}
    BY DEF AfterConfigure, When
  <2> HIDE DEF d, then
  <2>5. QED
    BY <2>3, <2>4
<1>4. GoesOn(c, AfterConfigure(c)) /\ Done(c)
  BY DEF SettleConfigure, AfterConfigure
<1>5. QED
  BY <1>1, <1>3, <1>4, CallsGoOn

\* enableBackgroundSync has settled.
LEMMA EnableSettles ==
  ASSUME TypeInv, NEW c \in BagToSet(calls), SettleEnable(c)
  PROVE  /\ Moves({c}, AfterEnable(c)) /\ CallsOK' /\ Run' = Run /\ hook = "SyncProvider"
         /\ \A d \in AfterEnable(c) : Asked(d, c.by) /\ d.op = "add" /\ d.then = "nothing"
<1>1. CallOK(c) /\ hook \in AllHooks /\ Run' = Run /\ instance' = instance /\ c.op = "enable"
  BY FromBag DEF SettleEnable, fixed, Run
<1>2. "add" \in OpsOf /\ hook = "SyncProvider"
  BY <1>1 DEF CallOK, AllHooks, OpsOf
<1>3. \A d \in AfterEnable(c) : Asked(d, c.by) /\ d.op = "add" /\ d.then = "nothing"
  BY <1>2, AskAsked DEF AfterEnable, When, Ask, NewCall
<1>4. GoesOn(c, AfterEnable(c)) /\ Done(c)
  BY DEF SettleEnable, AfterEnable
<1>5. QED
  BY <1>1, <1>2, <1>3, <1>4, CallsGoOn

\* The id of the listener arrives.
LEMMA AddSettles ==
  ASSUME TypeInv, NEW c \in BagToSet(calls), SettleAdd(c)
  PROVE  /\ Moves({c}, AfterAdd(c)) /\ CallsOK' /\ Run' = Run /\ Current' = Current
         /\ effects' \in Seq(Effect) /\ Len(effects') = Len(effects)
         /\ \A g \in Run \ {c.by} : effects'[g] = effects[g]
         /\ effects'[c.by].subscribed = c.ok
         /\ effects'[c.by].ended = effects[c.by].ended
         /\ effects'[c.by].late = effects[c.by].late
         /\ \A d \in AfterAdd(c) : Asked(d, c.by) /\ d.op = "remove" /\ d.then = "nothing"
<1> DEFINE e == [effects[c.by] EXCEPT !.subscribed = c.ok]
<1>1. CallOK(c) /\ hook \in AllHooks /\ instance' = instance /\ c.op = "add" /\ c.by \in Run
  BY FromBag DEF SettleAdd, fixed
<1>2. effects \in Seq(Effect) /\ c.by \in 1..Len(effects) /\ effects[c.by] \in Effect /\ c.ok \in BOOLEAN
  BY <1>1, EffectsTyped, PartsKnown DEF TypeInv
<1>3. /\ e \in Effect /\ e.subscribed = c.ok
      /\ e.ended = effects[c.by].ended /\ e.late = effects[c.by].late
  BY <1>2 DEF Effect
<1>4. effects' = [effects EXCEPT ![c.by] = e]
  BY DEF SettleAdd
<1> HIDE DEF e
<1>5. /\ effects' \in Seq(Effect) /\ Len(effects') = Len(effects)
      /\ \A j \in 1..Len(effects) : effects'[j] = IF j = c.by THEN e ELSE effects[j]
  BY <1>2, <1>3, <1>4, ExceptSeq
<1>6. Run' = Run /\ Current' = Current
  BY <1>5 DEF Current, Run
<1>7. "remove" \in OpsOf
  BY <1>1 DEF AllHooks, OpsOf
<1>8. \A d \in AfterAdd(c) : Asked(d, c.by) /\ d.op = "remove" /\ d.then = "nothing"
  BY <1>7, AskAsked DEF AfterAdd, When, Ask, NewCall
<1>9. GoesOn(c, AfterAdd(c)) /\ Done(c)
  BY DEF SettleAdd, AfterAdd
<1>10. Moves({c}, AfterAdd(c)) /\ CallsOK'
  BY <1>1, <1>6, <1>8, <1>9, CallsGoOn
<1>11. effects'[c.by] = e /\ \A g \in Run \ {c.by} : effects'[g] = effects[g]
  BY <1>2, <1>5 DEF Run
<1>12. QED
  BY <1>3, <1>5, <1>6, <1>8, <1>10, <1>11

\* flushUnlessOffline has the status.
LEMMA StatusSettles ==
  ASSUME TypeInv, NEW c \in BagToSet(calls), FlushUnlessOffline(c)
  PROVE  /\ Moves({c}, AfterStatus(c)) /\ CallsOK' /\ Run' = Run
         /\ \A d \in AfterStatus(c) : Asked(d, c.by) /\ d.op = "syncing" /\ d.then = "flush"
<1>1. hook = "useAutoSync" /\ Run' = Run /\ instance' = instance
  BY DEF FlushUnlessOffline, fixed, Run
<1>2. "syncing" \in OpsOf /\ "none" \in ConnectionStatus \cup {"none"}
  BY <1>1 DEF OpsOf
<1>3. \A d \in AfterStatus(c) : Asked(d, c.by) /\ d.op = "syncing" /\ d.then = "flush"
  BY <1>2, NewCallAsked DEF AfterStatus, When, NewCall, Nexts
<1>4. GoesOn(c, AfterStatus(c)) /\ Done(c)
  BY DEF FlushUnlessOffline, AfterStatus
<1>5. QED
  BY <1>1, <1>3, <1>4, CallsGoOn

\* safeFlush has isSyncing.
LEMMA SyncingSettles ==
  ASSUME TypeInv, NEW c \in BagToSet(calls), SafeFlush(c)
  PROVE  /\ Moves({c}, AfterSyncing(c)) /\ CallsOK' /\ Run' = Run
         /\ \A d \in AfterSyncing(c) : Asked(d, c.by) /\ d.op = "flush" /\ d.then = "nothing"
<1>1. hook = "useAutoSync" /\ Run' = Run /\ instance' = instance
  BY DEF SafeFlush, fixed, Run
<1>2. "flush" \in OpsOf
  BY <1>1 DEF OpsOf
<1>3. \A d \in AfterSyncing(c) : Asked(d, c.by) /\ d.op = "flush" /\ d.then = "nothing"
  BY <1>2, AskAsked DEF AfterSyncing, When, Ask, NewCall
<1>4. GoesOn(c, AfterSyncing(c)) /\ Done(c)
  BY DEF SafeFlush, AfterSyncing
<1>5. QED
  BY <1>1, <1>3, <1>4, CallsGoOn

-----------------------------------------------------------------------------
(***************************************************************************)
(* TypeOK: every action keeps every variable in its range.                 *)
(***************************************************************************)
\* The initial state.
LEMMA InitTypes ==
  ASSUME Init
  PROVE  TypeInv
<1>1. /\ instance \in Instances /\ hook = instance.hook /\ instance.effects \in Nat
      /\ instance.changes \in Nat /\ instance.faults \in Nat
  BY HooksAssumption DEF Init, hook
<1>2. effects = <<>> /\ <<>> \in Seq(Effect) /\ Len(effects) = 0 /\ Run = {}
  BY EmptySeq DEF Init, Run
<1>3. StateOK
  <2>1. view \in View
    BY DEF Init, InitialView, View, ConnectionStatus
  <2>2. /\ world \in [connection : {"CONNECTED", "DISCONNECTED"}, size : {1}, items : {1}, last : {0},
                      results : {0}, syncing : {FALSE}, closing : {FALSE}, paused : {FALSE}, config : {1},
                      background : {FALSE}]
        /\ online \in BOOLEAN
    BY DEF Init
  <2>5. world \in World
    <3>1. world.connection \in ConnectionStatus
      BY <2>2 DEF ConnectionStatus
    <3>2. world.size \in Nat /\ world.items \in Nat /\ world.last \in Nat /\ world.config \in Nat
          /\ world.results \in Nat
      BY <2>2
    <3>3. world.syncing \in {FALSE} /\ world.closing \in {FALSE} /\ world.paused \in {FALSE}
          /\ world.background \in {FALSE}
      BY <2>2
    <3>4. world.syncing \in BOOLEAN /\ world.closing \in BOOLEAN /\ world.paused \in BOOLEAN
          /\ world.background \in BOOLEAN
      BY <3>3
    <3>5. world = [connection |-> world.connection, size |-> world.size, items |-> world.items,
                   last |-> world.last, results |-> world.results, syncing |-> world.syncing,
                   closing |-> world.closing, paused |-> world.paused, config |-> world.config, background |-> world.background]
      BY <2>2
    <3>6. QED
      BY <3>1, <3>2, <3>4, <3>5 DEF World
  <2>3. option \in BOOLEAN /\ available \in BOOLEAN
    BY DEF Init
  <2>4. /\ cancelledRef = FALSE /\ ownsBackgroundRef = FALSE /\ lastConnectionRef = "null" /\ local = 0
        /\ listeners = {} /\ changes = 0 /\ faults = 0 /\ stale = {}
    BY DEF Init
  <2>6. changes \in 0..instance.changes /\ faults \in 0..instance.faults /\ Len(effects) <= instance.effects
    BY <1>1, <1>2, <2>4
  <2>7. cancelledRef \in BOOLEAN /\ ownsBackgroundRef \in BOOLEAN /\ listeners \subseteq Run /\ local \in Nat
    BY <2>4
  <2>8. QED
    BY <1>1, <1>2, <2>1, <2>2, <2>3, <2>4, <2>5, <2>6, <2>7 DEF StateOK
<1>4. BagToSet(calls) = {} /\ CallsOK
  BY DEF CallsOK, Init, EmptyBag, SetToBag, BagToSet, IsABag
<1>5. inbox = <<>> /\ InboxOK
  BY EmptySeq DEF InboxOK, Init
<1>6. IdleOK
  BY <1>2, <1>4, <1>5 DEF IdleOK, Init, InitialView
<1>7. QED
  BY <1>3, <1>4, <1>5, <1>6 DEF TypeInv

\* The effect.
LEMMA MountTypes ==
  ASSUME TypeInv, Mount
  PROVE  TypeInv'
<1> DEFINE ask == When(available, StartCalls(Current'))
<1>1. /\ Current' = Current + 1 /\ Run' = Run \cup {Current'}
      /\ effects' \in Seq(Effect) /\ Moves({}, ask) /\ CallsOK'
  BY MountCalls
<1>2. Current \in Nat /\ instance.effects \in Nat /\ Ran(ask)
  BY <1>1, EffectsTyped, InstanceTyped DEF TypeInv, Mount
<1>3. Len(effects') <= instance.effects
  BY <1>1, <1>2 DEF Mount, Current
<1>4. view' \in View /\ DOMAIN view' = DOMAIN view
  BY <1>2, ViewTyped DEF Ran, TypeInv, StateOK, View, Loading
<1>5. StateOK'
  <2>1. /\ fixed' = fixed /\ cancelledRef' = FALSE /\ hook' = hook
        /\ ownsBackgroundRef' = ownsBackgroundRef /\ lastConnectionRef' = lastConnectionRef
        /\ local' = local /\ world' = world /\ listeners' = listeners /\ changes' = changes /\ faults' = faults
        /\ stale' = stale /\ online' = online
    BY DEF Mount, nativeVars, history, hook, fixed
  <2>2. QED
    BY <1>1, <1>3, <1>4, <2>1 DEF TypeInv, StateOK, fixed
<1>6. InboxOK'
  BY <1>1, InboxMonotone DEF Mount, TypeInv
<1>7. IdleOK'
  <2>1. ~available => ask = {} /\ ~Loading(ask)
    BY DEF When, Loading
  <2>2. /\ available' = available /\ inbox' = inbox /\ listeners' = listeners
        /\ view'.loading = (view.loading \/ Loading(ask))
    BY <1>2 DEF Mount, fixed, nativeVars, Ran, TypeInv, StateOK, View
  <2>3. /\ \A g \in Run : effects'[g] = effects[g]
        /\ ~effects'[Current'].subscribed
    BY MountCalls
  <2>4. ownsBackgroundRef' = ownsBackgroundRef
    BY DEF Mount
  <2>5. QED
    BY <1>1, <2>1, <2>2, <2>3, <2>4 DEF Moves, TypeInv, IdleOK
<1>8. QED
  BY <1>1, <1>5, <1>6, <1>7 DEF TypeInv

\* The cleanup.
LEMMA UnmountTypes ==
  ASSUME TypeInv, Unmount
  PROVE  TypeInv'
<1>1. /\ Run' = Run /\ effects' \in Seq(Effect) /\ Len(effects') = Len(effects)
      /\ Moves({}, CleanupCalls) /\ CallsOK'
  BY UnmountCalls
<1>2. /\ fixed' = fixed /\ cancelledRef' = TRUE /\ ownsBackgroundRef' = FALSE
      /\ lastConnectionRef' = lastConnectionRef /\ view' = view /\ inbox' = inbox
      /\ local' = local /\ world' = world /\ listeners' = listeners /\ changes' = changes /\ faults' = faults
      /\ stale' = stale /\ online' = online
  BY DEF Unmount, nativeVars, history
<1>3. StateOK'
  BY <1>1, <1>2 DEF TypeInv, StateOK, fixed
<1>4. InboxOK'
  BY <1>1, <1>2, InboxMonotone DEF TypeInv
<1>5. IdleOK'
  <2>1. /\ Current \in Run /\ effects'[Current].subscribed = effects[Current].subscribed
        /\ \A g \in Run \ {Current} : effects'[g] = effects[g]
    BY UnmountCalls
  <2>2. ~available => CleanupCalls = {}
    BY <2>1 DEF CleanupCalls, When, TypeInv, IdleOK
  <2>3. QED
    BY <1>1, <1>2, <2>1, <2>2 DEF Moves, TypeInv, IdleOK, fixed
<1>6. QED
  BY <1>1, <1>3, <1>4, <1>5 DEF TypeInv

\* The callbacks of the component.
LEMMA CallMadeTypes ==
  ASSUME TypeInv, Refresh \/ SetConfig \/ Tick
  PROVE  TypeInv'
<1>1. CallsOK' /\ Run' = Run /\ available
  BY RefreshCalls, SetConfigCalls, TickCalls DEF Refresh, SetConfig, Tick
<1>2. /\ fixed' = fixed /\ effects' = effects /\ refVars' = refVars
      /\ inbox' = inbox /\ local' = local /\ nativeVars' = nativeVars /\ faults' = faults
      /\ history' = history /\ changes < instance.changes /\ changes' = changes + 1
  BY DEF Refresh, SetConfig, Tick
<1>3. view' \in View /\ DOMAIN view' = DOMAIN view
  <2>1. view \in View
    BY DEF TypeInv, StateOK
  <2>2. view' = view \/ \E ask : view' = [view EXCEPT !.loading = @ \/ Loading(ask)]
    BY DEF Refresh, SetConfig, Tick, Ran
  <2>3. QED
    BY <2>1, <2>2 DEF View, Loading
<1>4. StateOK'
  <2>1. changes' \in 0..instance.changes
    BY <1>2, InstanceTyped DEF TypeInv, StateOK
  <2>2. QED
    BY <1>1, <1>2, <1>3, <2>1 DEF TypeInv, StateOK, fixed, refVars, nativeVars, history, hook
<1>5. InboxOK'
  BY <1>1, <1>2, InboxMonotone DEF TypeInv
<1>6. IdleOK'
  BY <1>1, <1>2 DEF IdleOK, fixed
<1>7. QED
  BY <1>1, <1>4, <1>5, <1>6 DEF TypeInv

\* The consumer below the provider.
LEMMA MirrorTypes ==
  ASSUME TypeInv, MirrorContext
  PROVE  TypeInv'
<1>1. /\ fixed' = fixed /\ effects' = effects /\ refVars' = refVars /\ view' = view /\ calls' = calls
      /\ inbox' = inbox /\ local' = view.config /\ nativeVars' = nativeVars /\ changes' = changes
      /\ faults' = faults /\ history' = history
  BY DEF MirrorContext
<1>2. Run' = Run /\ hook' = hook
  BY <1>1 DEF Run, hook, fixed
<1>3. local' \in Nat
  BY <1>1 DEF TypeInv, StateOK, View
<1>4. StateOK'
  BY <1>1, <1>2, <1>3 DEF TypeInv, StateOK, fixed, refVars, nativeVars, history
<1>5. CallsOK'
  BY <1>1, <1>2, StayMoves, CallsMove DEF TypeInv, CallsOK, fixed
<1>6. InboxOK' /\ IdleOK'
  BY <1>1, <1>2, InboxMonotone DEF TypeInv, IdleOK, fixed, refVars, nativeVars
<1>7. QED
  BY <1>4, <1>5, <1>6 DEF TypeInv

\* A native change: what it leaves alone, and what it does to the inbox.
LEMMA NativeFrame ==
  ASSUME TypeInv, NativeChange
  PROVE  /\ fixed' = fixed /\ effects' = effects /\ refVars' = refVars /\ view' = view /\ local' = local
         /\ calls' = calls /\ listeners' = listeners /\ faults' = faults /\ flushed' = flushed
         /\ hook' = hook /\ Run' = Run /\ Current' = Current /\ CallsOK'
<1>1. /\ fixed' = fixed /\ effects' = effects /\ refVars' = refVars /\ view' = view /\ local' = local
      /\ calls' = calls /\ listeners' = listeners /\ faults' = faults /\ flushed' = flushed
  BY DEF NativeChange, ConnectionChanges, QueueChanges, CycleStarts, CycleCloses, CycleReturns,
         CycleEndsSilently, ClearHistory, PauseChanges, Reconfigured, Announce, history
<1>2. hook' = hook /\ Run' = Run /\ Current' = Current
  BY <1>1 DEF fixed, hook, Run, Current
<1>3. CallsOK'
  BY <1>1, <1>2, StayMoves, CallsMove DEF TypeInv, CallsOK, fixed
<1>4. QED
  BY <1>1, <1>2, <1>3

\* An announced event reaches the listeners of the moment.
LEMMA AnnounceFacts ==
  ASSUME TypeInv, NEW type \in SyncEventType, NEW status \in ConnectionStatus \cup {"none"},
         type = "CONNECTION_CHANGED" => status \in ConnectionStatus,
         NEW fields, NEW told, NEW raced, Announce(type, status, fields, told, raced), Run' = Run
  PROVE  /\ Emitted(type, status) /\ InboxOK'
         /\ ~available => inbox' = <<>>
         /\ stale' = IF Listening THEN (stale \ told) \cup raced ELSE stale \cup fields
<1>1. Emitted(type, status)
  BY EmitFacts DEF Announce
<1>2. InboxOK'
  BY <1>1, InboxEmitted
<1>3. ASSUME ~available
      PROVE  inbox' = <<>>
  <2>1. inbox = <<>> /\ listeners = {}
    BY <1>3 DEF TypeInv, IdleOK
  <2>2. Len(inbox') = 0 /\ inbox' \in Seq(Event)
    BY <2>1, <1>1, EmptySeq DEF Emitted
  <2>3. QED
    BY <2>2, EmptySeq
<1>4. QED
  BY <1>1, <1>2, <1>3 DEF Announce

\* A native change keeps the types if the world, the inbox and stale have theirs.
LEMMA NativeTypes ==
  ASSUME TypeInv, NativeChange, world' \in World, changes' = changes \/ Budget,
         online' \in BOOLEAN, stale' \subseteq Shows,
         InboxOK', ~available => inbox' = <<>>
  PROVE  TypeInv'
<1>1. /\ fixed' = fixed /\ effects' = effects /\ refVars' = refVars /\ view' = view /\ local' = local
      /\ calls' = calls /\ listeners' = listeners /\ faults' = faults
      /\ hook' = hook /\ Run' = Run /\ CallsOK'
  BY NativeFrame
<1>2. changes' \in 0..instance.changes
  BY InstanceTyped DEF TypeInv, StateOK, Budget
<1>3. DOMAIN view = Shows
  BY ViewTyped DEF TypeInv, StateOK
<1>4. StateOK'
  BY <1>1, <1>2, <1>3 DEF TypeInv, StateOK, fixed, refVars
<1>5. IdleOK'
  BY <1>1 DEF TypeInv, IdleOK, fixed, refVars
<1>6. QED
  BY <1>1, <1>4, <1>5 DEF TypeInv

\* What recording a result changes in the world.
LEMMA ResultRecorded ==
  ASSUME world \in World
  PROVE  /\ Recorded(world) \in World /\ Recorded(world).last # 0
         /\ \A f \in {"connection", "size", "items", "syncing", "closing", "paused", "config", "background"} :
              Recorded(world)[f] = world[f]
<1>1. world.results + 1 \in Nat /\ world.results + 1 # 0
  BY DEF World
<1>2. PICK n \in Nat : n = world.results + 1 /\ n # 0
  BY <1>1
<1>3. Recorded(world) = [world EXCEPT !.results = n, !.last = n]
  BY <1>2 DEF Recorded
<1>4. QED
  BY <1>2, <1>3 DEF World

\* A closing event changes the result at most.
LEMMA ClosedWorld ==
  ASSUME TypeInv, CycleCloses
  PROVE  /\ world' \in World /\ world'.closing /\ world.syncing /\ ~world.closing
         /\ world'.last = world.last \/ world'.last # 0
         /\ \A f \in {"connection", "size", "items", "syncing", "paused", "config", "background"} :
              world'[f] = world[f]
<1>1. PICK w \in {world, Recorded(world)} : world' = [w EXCEPT !.closing = TRUE]
  BY DEF CycleCloses
<1>2. world \in World /\ w \in World
  BY <1>1, ResultRecorded DEF TypeInv, StateOK
<1>3. /\ w.last = world.last \/ w.last # 0
      /\ \A f \in {"connection", "size", "items", "syncing", "paused", "config", "background"} : w[f] = world[f]
  BY <1>1, <1>2, ResultRecorded
<1>4. /\ world' \in World /\ world'.closing /\ world'.last = w.last
      /\ \A f \in {"connection", "size", "items", "syncing", "paused", "config", "background"} : world'[f] = w[f]
  BY <1>1, <1>2 DEF World
<1>5. QED
  BY <1>3, <1>4 DEF CycleCloses

\* A cycle that ends silently records its result, and the fields it touches are given up.
LEMMA SilentWorld ==
  ASSUME TypeInv, CycleEndsSilently
  PROVE  /\ world' \in World /\ ~world'.syncing /\ ~world'.closing /\ world'.last # 0
         /\ \A f \in {"connection", "size", "items", "paused", "config", "background"} : world'[f] = world[f]
         /\ stale' = stale \cup {"size", "items", "syncing", "last"}
         /\ inbox' = inbox /\ changes' = changes /\ online' = online
<1>1. world \in World /\ ~world.closing
  BY DEF TypeInv, StateOK, CycleEndsSilently
<1>2. PICK w : w = Recorded(world)
  OBVIOUS
<1>3. /\ w \in World /\ w.last # 0 /\ ~w.closing
      /\ \A f \in {"connection", "size", "items", "paused", "config", "background"} : w[f] = world[f]
  BY <1>1, <1>2, ResultRecorded
<1>4. world' = [w EXCEPT !.syncing = FALSE]
  BY <1>2 DEF CycleEndsSilently
<1>5. /\ world' \in World /\ ~world'.syncing /\ world'.closing = w.closing /\ world'.last = w.last
      /\ \A f \in {"connection", "size", "items", "paused", "config", "background"} : world'[f] = w[f]
  BY <1>3, <1>4 DEF World
<1>6. QED
  BY <1>3, <1>5 DEF CycleEndsSilently

\* The changes nobody is told of.
Untold == CycleReturns \/ CycleEndsSilently \/ ClearHistory \/ Reconfigured

\* The state after each native change, as far as types, inbox and stale go.
LEMMA WorldTyped ==
  ASSUME TypeInv, NativeChange
  PROVE  world' \in World /\ online' \in BOOLEAN
<1>1. world \in World /\ online \in BOOLEAN
  BY DEF TypeInv, StateOK
<1>2. CASE ConnectionChanges
  <2>1. PICK status \in {"CONNECTED", "METERED", "DISCONNECTED"} :
          /\ world' = [world EXCEPT !.connection = status]
          /\ online' = (online \/ status # "DISCONNECTED")
    BY <1>2 DEF ConnectionChanges
  <2>2. status \in ConnectionStatus
    BY DEF ConnectionStatus
  <2>3. QED
    BY <1>1, <2>1, <2>2 DEF World
<1>3. CASE QueueChanges
  <2>1. world' = [world EXCEPT !.size = world.size + 1, !.items = world.items + 1] /\ online' = online
    BY <1>3 DEF QueueChanges
  <2>2. world.size + 1 \in Nat /\ world.items + 1 \in Nat
    BY <1>1 DEF World
  <2>3. QED
    BY <1>1, <2>1, <2>2 DEF World
<1>4. CASE CycleStarts
  <2>1. world' = [world EXCEPT !.syncing = TRUE] /\ online' = online
    BY <1>4 DEF CycleStarts
  <2>2. QED
    BY <1>1, <2>1 DEF World
<1>5. CASE CycleCloses
  BY <1>1, <1>5, ClosedWorld DEF CycleCloses
<1>6. CASE CycleReturns
  <2>1. world' = [world EXCEPT !.closing = FALSE, !.syncing = FALSE] /\ online' = online
    BY <1>6 DEF CycleReturns, history
  <2>2. QED
    BY <1>1, <2>1 DEF World
<1>7. CASE PauseChanges
  <2>1. PICK paused \in BOOLEAN : world' = [world EXCEPT !.paused = paused] /\ online' = online
    BY <1>7 DEF PauseChanges
  <2>2. QED
    BY <1>1, <2>1 DEF World
<1>8. CASE Reconfigured
  <2>1. world' = [world EXCEPT !.config = @ + 1] /\ online' = online
    BY <1>8 DEF Reconfigured
  <2>2. QED
    BY <1>1, <2>1 DEF World
<1>9. CASE CycleEndsSilently
  BY <1>1, <1>9, SilentWorld
<1>10. CASE ClearHistory
  <2>1. world' = [world EXCEPT !.last = 0] /\ online' = online
    BY <1>10 DEF ClearHistory
  <2>2. QED
    BY <1>1, <2>1 DEF World
<1>11. QED
  BY <1>2, <1>3, <1>4, <1>5, <1>6, <1>7, <1>8, <1>9, <1>10 DEF NativeChange

\* Only fields of the view are stale.
LEMMA StaleShown ==
  ASSUME TypeInv
  PROVE  stale \subseteq Shows
  BY ViewTyped DEF TypeInv, StateOK

\* Every event a native change announces, and what may be shown wrong after it.
Announced ==
  \E type \in SyncEventType : \E status \in ConnectionStatus \cup {"none"} :
    \E fields, told, raced \in SUBSET Shows :
      /\ type = "CONNECTION_CHANGED" => status \in ConnectionStatus
      /\ Announce(type, status, fields, told, raced)

\* Every change announces an event, but for those nobody is told of.
LEMMA ChangeAnnounced ==
  ASSUME NativeChange
  PROVE  \/ Announced /\ (changes' = changes \/ Budget)
         \/ Untold
<1> USE DEF Announced, SyncEventType, ConnectionStatus, Shows, When
<1>1. CASE ConnectionChanges
  BY <1>1 DEF ConnectionChanges
<1>2. CASE QueueChanges
  <2>1. RefreshEvents \cup {"ITEM_RETRYING"} \subseteq SyncEventType \ {"CONNECTION_CHANGED"}
    BY DEF RefreshEvents, QueueEvents, ClosingEvents
  <2>2. QED
    BY <1>2, <2>1 DEF QueueChanges
<1>3. CASE CycleStarts
  BY <1>3 DEF CycleStarts
<1>4. CASE CycleCloses
  <2>1. PICK type \in ClosingEvents :
          /\ Announce(type, "none", {"size", "items", "syncing", "last"}, {"syncing"},
                      When(Under("syncing") # {}, {"syncing"}))
          /\ changes' = changes
    BY <1>4 DEF CycleCloses
  <2>2. type \in SyncEventType /\ type # "CONNECTION_CHANGED"
    BY <2>1 DEF ClosingEvents
  <2>3. QED
    BY <2>1, <2>2
<1>5. CASE PauseChanges
  BY <1>5 DEF PauseChanges
<1>6. QED
  BY <1>1, <1>2, <1>3, <1>4, <1>5 DEF NativeChange, Untold

\* A native change.
LEMMA ChangeTypes ==
  ASSUME TypeInv, NativeChange
  PROVE  TypeInv'
<1>1. Run' = Run /\ stale \subseteq Shows
  BY NativeFrame, StaleShown
<1>2. world' \in World /\ online' \in BOOLEAN
  BY WorldTyped
<1>3. CASE Announced /\ (changes' = changes \/ Budget)
  <2>1. /\ InboxOK' /\ (~available => inbox' = <<>>)
        /\ stale' \subseteq Shows
    BY <1>1, <1>3, AnnounceFacts DEF Announced
  <2>2. QED
    BY <1>2, <1>3, <2>1, NativeTypes
<1>4. CASE Untold
  <2>1. inbox' = inbox /\ (changes' = changes \/ Budget) /\ stale' \subseteq Shows
    <3>1. {"size", "items", "syncing", "last"} \subseteq Shows /\ "config" \in Shows
      BY DEF Shows
    <3>2. QED
      BY <1>1, <1>4, <3>1 DEF Untold, CycleReturns, CycleEndsSilently, ClearHistory, Reconfigured, history
  <2>2. InboxOK' /\ (~available => inbox' = <<>>)
    BY <1>1, <2>1, InboxMonotone DEF TypeInv, IdleOK
  <2>3. QED
    BY <1>2, <2>1, <2>2, NativeTypes
<1>5. QED
  BY <1>3, <1>4, ChangeAnnounced

\* Native executes a call.
LEMMA ExecuteTypes ==
  ASSUME TypeInv, NEW c \in BagToSet(calls), Execute(c)
  PROVE  TypeInv'
<1>1. /\ fixed' = fixed /\ effects' = effects /\ refVars' = refVars /\ view' = view /\ local' = local
      /\ inbox' = inbox /\ changes' = changes /\ faults' = faults /\ online' = online
      /\ hook' = hook /\ Run' = Run /\ instance' = instance
  BY DEF Execute, fixed, hook, Run
<1>2. CallOK(c) /\ c.by \in Run /\ stale \subseteq Shows
  BY FromBag, StaleShown
<1>3. PICK part \in c.todo : Read(c, part) \/ Write(c, part)
  BY DEF Execute
<1>4. CallsOK' /\ world' \in World /\ stale' \subseteq Shows /\ listeners' \subseteq listeners \cup {c.by}
  <2>1. CASE Read(c, part)
    <3>1. CallsOK' /\ part \in Parts(c.op)
      BY <1>1, <2>1, ReadCalls DEF ReadInPart
    <3>2. part \in Shows
      BY <3>1, <2>1, WorldValues DEF Read, TypeInv
    <3>3. stale' \subseteq stale \cup {part}
      BY <2>1 DEF Read, When
    <3>4. world' = world /\ listeners' = listeners /\ world \in World
      BY <2>1 DEF Read, TypeInv, StateOK
    <3>5. QED
      BY <1>2, <3>1, <3>2, <3>3, <3>4
  <2>2. CASE Write(c, part)
    <3>1. CallsOK'
      BY <1>1, <2>2, WriteCalls, SwallowedCalls
    <3>2. world \in World
      BY DEF TypeInv, StateOK
    <3>3. world' \in World
      <4>1. \/ world' = [world EXCEPT !.config = @ + 1]
            \/ world' = [world EXCEPT !.background = TRUE]
            \/ world' = [world EXCEPT !.background = FALSE]
            \/ world' = world
        BY <2>2 DEF Write
      <4>2. [world EXCEPT !.config = @ + 1] \in World
        BY <3>2 DEF World
      <4>3. [world EXCEPT !.background = TRUE] \in World /\ [world EXCEPT !.background = FALSE] \in World
        BY <3>2 DEF World
      <4>4. QED
        BY <3>2, <4>1, <4>2, <4>3
    <3>4. stale' \subseteq Shows
      BY <1>2, <2>2 DEF Write, When, Shows
    <3>5. listeners' \subseteq listeners \cup {c.by}
      BY <2>2 DEF Write
    <3>6. QED
      BY <3>1, <3>3, <3>4, <3>5
  <2>3. QED
    BY <1>3, <2>1, <2>2
<1>5. StateOK'
  BY <1>1, <1>2, <1>4, ViewTyped DEF TypeInv, StateOK, fixed, refVars
<1>6. InboxOK'
  BY <1>1, InboxMonotone DEF TypeInv
<1>7. IdleOK'
  BY <1>1 DEF TypeInv, IdleOK, fixed
<1>8. QED
  BY <1>4, <1>5, <1>6, <1>7 DEF TypeInv

\* Native rejects a call.
LEMMA FailTypes ==
  ASSUME TypeInv, NEW c \in BagToSet(calls), Fail(c)
  PROVE  TypeInv'
<1>1. /\ fixed' = fixed /\ effects' = effects /\ refVars' = refVars /\ view' = view /\ local' = local
      /\ inbox' = inbox /\ nativeVars' = nativeVars /\ changes' = changes /\ online' = online
      /\ hook' = hook /\ faults' = faults + 1 /\ faults < instance.faults
      /\ stale' = stale \cup (Parts(c.op) \cap DOMAIN view)
  BY DEF Fail, fixed, hook
<1>2. CallsOK' /\ Run' = Run
  BY FailCalls
<1>3. StateOK'
  <2>1. faults' \in 0..instance.faults
    BY <1>1, InstanceTyped DEF TypeInv, StateOK
  <2>2. QED
    BY <1>1, <1>2, <2>1 DEF TypeInv, StateOK, fixed, refVars, nativeVars
<1>4. InboxOK'
  BY <1>1, <1>2, InboxMonotone DEF TypeInv
<1>5. IdleOK'
  BY <1>1 DEF TypeInv, IdleOK, fixed
<1>6. QED
  BY <1>2, <1>3, <1>4, <1>5 DEF TypeInv

\* What a continuation leaves alone.
LEMMA SettleFrame ==
  ASSUME TypeInv, NEW c \in BagToSet(calls), Settle(c)
  PROVE  /\ fixed' = fixed /\ cancelledRef' = cancelledRef /\ lastConnectionRef' = lastConnectionRef
         /\ local' = local /\ inbox' = inbox /\ nativeVars' = nativeVars /\ changes' = changes
         /\ faults' = faults /\ stale' = stale /\ online' = online /\ hook' = hook
         /\ CallsOK' /\ Run' = Run /\ Current' = Current /\ available
<1>1. /\ fixed' = fixed /\ cancelledRef' = cancelledRef /\ lastConnectionRef' = lastConnectionRef
      /\ local' = local /\ inbox' = inbox /\ nativeVars' = nativeVars /\ changes' = changes
      /\ faults' = faults /\ stale' = stale /\ online' = online
  BY DEF Settle, SettleRead, SettleConfigure, SettleEnable, SettleAdd, FlushUnlessOffline, SafeFlush,
         refVars, history
<1>2. CallsOK' /\ Run' = Run
  BY ReadSettles, ConfigureSettles, EnableSettles, AddSettles, StatusSettles, SyncingSettles DEF Settle
<1>3. Current' = Current
  <2>1. CASE SettleAdd(c)
    BY <2>1, AddSettles
  <2>2. CASE ~SettleAdd(c)
    BY <2>2 DEF Settle, SettleRead, SettleConfigure, SettleEnable, FlushUnlessOffline, SafeFlush, Current
  <2>3. QED
    BY <2>1, <2>2
<1>4. available
  BY DEF TypeInv, IdleOK
<1>5. QED
  BY <1>1, <1>2, <1>3, <1>4 DEF hook, fixed

\* A continuation.
LEMMA SettleTypes ==
  ASSUME TypeInv, NEW c \in BagToSet(calls), Settle(c)
  PROVE  TypeInv'
<1>1. /\ fixed' = fixed /\ cancelledRef' = cancelledRef /\ lastConnectionRef' = lastConnectionRef
      /\ local' = local /\ inbox' = inbox /\ nativeVars' = nativeVars /\ changes' = changes
      /\ faults' = faults /\ stale' = stale /\ online' = online /\ hook' = hook
      /\ CallsOK' /\ Run' = Run /\ available
  BY SettleFrame
<1>2. CallOK(c) /\ view \in View /\ c.ok \in BOOLEAN
  BY FromBag, PartsKnown DEF TypeInv, StateOK
<1>3. view' \in View
  <2>1. CASE SettleRead(c)
    <3>1. Done(c) /\ c.op \in ReadOps /\ (view' = view \/ view' = ViewAfter(c))
      BY <2>1 DEF SettleRead
    <3>2. QED
      BY <1>2, <3>1, ViewAfterTyped DEF TypeInv
  <2>2. CASE SettleConfigure(c)
    <3>1. PICK ask : view' = [view EXCEPT !.loading = @ \/ Loading(ask)]
      BY <2>2 DEF SettleConfigure
    <3>2. QED
      BY <1>2, <3>1 DEF View, Loading
  <2>3. CASE ~SettleRead(c) /\ ~SettleConfigure(c)
    BY <1>2, <2>3 DEF Settle, SettleEnable, SettleAdd, FlushUnlessOffline, SafeFlush
  <2>4. QED
    BY <2>1, <2>2, <2>3
<1>4. effects' \in Seq(Effect) /\ Len(effects') = Len(effects)
  <2>1. CASE SettleAdd(c)
    BY <2>1, AddSettles
  <2>2. CASE ~SettleAdd(c)
    BY <2>2 DEF Settle, SettleRead, SettleConfigure, SettleEnable, FlushUnlessOffline, SafeFlush, TypeInv, StateOK
  <2>3. QED
    BY <2>1, <2>2
<1>5. ownsBackgroundRef' \in BOOLEAN /\ (ownsBackgroundRef' => hook = "SyncProvider")
  <2>1. CASE SettleEnable(c)
    <3>1. hook = "SyncProvider" /\ ownsBackgroundRef' = (ownsBackgroundRef \/ c.ok)
      BY <2>1, EnableSettles DEF SettleEnable
    <3>2. (ownsBackgroundRef \/ c.ok) \in BOOLEAN
      OBVIOUS
    <3>3. QED
      BY <3>1, <3>2
  <2>2. CASE ~SettleEnable(c)
    <3>1. ownsBackgroundRef' = ownsBackgroundRef
      BY <2>2 DEF Settle, SettleRead, SettleConfigure, SettleAdd, FlushUnlessOffline, SafeFlush, refVars
    <3>2. QED
      BY <3>1 DEF TypeInv, StateOK
  <2>3. QED
    BY <2>1, <2>2
<1>6. StateOK'
  <2>1. DOMAIN view' = DOMAIN view
    BY <1>2, <1>3, ViewTyped
  <2>2. QED
    BY <1>1, <1>3, <1>4, <1>5, <2>1 DEF TypeInv, StateOK, fixed, nativeVars
<1>7. InboxOK' /\ IdleOK'
  BY <1>1, InboxMonotone DEF TypeInv, IdleOK, fixed
<1>8. QED
  BY <1>1, <1>6, <1>7 DEF TypeInv

\* What the callback of a listener does to the view.
LEMMA HandleView ==
  ASSUME TypeInv, NEW k \in DOMAIN inbox, Handle(k)
  PROVE  /\ view' \in View
         /\ view'.connection = view.connection /\ view'.size = view.size /\ view'.items = view.items
         /\ view'.last = view.last /\ view'.config = view.config
         /\ view'.syncing = IF "syncing" \notin Mirrored THEN view.syncing
                            ELSE (view.syncing \/ inbox[k].type = "SYNC_STARTED")
                                   /\ inbox[k].type \notin ClosingEvents
         /\ view'.paused = IF "paused" \notin Mirrored THEN view.paused
                           ELSE (view.paused \/ inbox[k].type = "PAUSED") /\ inbox[k].type # "RESUMED"
         /\ view'.loading = (view.loading \/ Loading(EventCalls(inbox[k])))
<1> DEFINE s == IF "syncing" \notin Mirrored THEN view.syncing
                ELSE (view.syncing \/ inbox[k].type = "SYNC_STARTED") /\ inbox[k].type \notin ClosingEvents
           p == IF "paused" \notin Mirrored THEN view.paused
                ELSE (view.paused \/ inbox[k].type = "PAUSED") /\ inbox[k].type # "RESUMED"
           l == view.loading \/ Loading(EventCalls(inbox[k]))
<1>1. view \in View
  BY DEF TypeInv, StateOK
<1>2. s \in BOOLEAN /\ p \in BOOLEAN /\ l \in BOOLEAN
  BY <1>1 DEF View
<1>3. view' = [view EXCEPT !.syncing = s, !.paused = p, !.loading = l]
  BY DEF Handle
<1> HIDE DEF s, p, l
<1>4. /\ view' \in View
      /\ view'.connection = view.connection /\ view'.size = view.size /\ view'.items = view.items
      /\ view'.last = view.last /\ view'.config = view.config
      /\ view'.syncing = s /\ view'.paused = p /\ view'.loading = l
  BY <1>1, <1>2, <1>3 DEF View
<1>5. QED
  BY <1>4 DEF s, p, l

\* The callback of a listener.
LEMMA HandleTypes ==
  ASSUME TypeInv, NEW k \in DOMAIN inbox, Handle(k)
  PROVE  TypeInv'
<1>1. /\ fixed' = fixed /\ effects' = effects /\ cancelledRef' = cancelledRef
      /\ ownsBackgroundRef' = ownsBackgroundRef
      /\ local' = local /\ nativeVars' = nativeVars /\ changes' = changes
      /\ faults' = faults /\ history' = history /\ hook' = hook
  BY DEF Handle, fixed, hook
<1>2. CallsOK' /\ Run' = Run /\ EventOK(inbox[k])
  BY HandleCalls
<1>3. view' \in View
  BY HandleView
<1>4. lastConnectionRef' \in ConnectionStatus \cup {"null"}
  BY <1>2 DEF Handle, LastConnection, EventOK, TypeInv, StateOK
<1>5. StateOK'
  <2>1. DOMAIN view' = DOMAIN view
    BY <1>3, ViewTyped DEF TypeInv, StateOK
  <2>2. QED
    BY <1>1, <1>2, <1>3, <1>4, <2>1 DEF TypeInv, StateOK, fixed, nativeVars, history
<1>6. InboxOK'
  BY <1>2, HandleFacts, InboxHandled
<1>7. available
  BY DEF TypeInv, IdleOK
<1>8. IdleOK'
  BY <1>1, <1>7 DEF IdleOK, fixed
<1>9. QED
  BY <1>2, <1>5, <1>6, <1>8 DEF TypeInv

\* Nothing happens.
LEMMA StutterTypes ==
  ASSUME TypeInv, UNCHANGED vars
  PROVE  TypeInv'
<1>1. hook' = hook /\ Run' = Run
  BY DEF vars, fixed, hook, Run
<1>2. StateOK'
  BY <1>1 DEF TypeInv, StateOK, vars, fixed, refVars, nativeVars, history
<1>3. CallsOK'
  BY <1>1, StayMoves, CallsMove DEF TypeInv, CallsOK, vars, fixed
<1>4. InboxOK' /\ IdleOK'
  BY <1>1, InboxMonotone DEF TypeInv, IdleOK, vars, fixed, nativeVars, refVars
<1>5. QED
  BY <1>2, <1>3, <1>4 DEF TypeInv

\* TypeInv is inductive.
LEMMA StepTypes ==
  ASSUME TypeInv, [Next]_vars
  PROVE  TypeInv'
  BY MountTypes, UnmountTypes, CallMadeTypes, MirrorTypes, ChangeTypes, ExecuteTypes, FailTypes, SettleTypes,
     HandleTypes, StutterTypes DEF Next

\* It is at least TypeOK.
LEMMA TypesImplied ==
  ASSUME TypeInv
  PROVE  TypeOK
<1>1. \A c \in BagToSet(calls) : c.op \in CallOps /\ c.by \in Run /\ c.todo \subseteq Parts(c.op)
  BY FromBag, PartsKnown
<1>2. \A k \in DOMAIN inbox : inbox[k].type \in SyncEventType /\ inbox[k].to \in Run
  BY DEF TypeInv, InboxOK, EventOK, Event
<1>3. QED
  BY <1>1, <1>2 DEF TypeInv, StateOK, TypeOK, Effect

\* Every reachable state is well formed.
LEMMA TypesAlways == Spec => []TypeInv
  BY InitTypes, StepTypes, PTL DEF Spec

\* Every variable stays in its range (TypeOK): what effects, continuations and callbacks
\* write is what useState, the refs and the native module can hold.
THEOREM TypesCorrect == Spec => []TypeOK
  BY TypesAlways, TypesImplied, PTL

-----------------------------------------------------------------------------
(***************************************************************************)
(* LoadingSettles: isLoading and the reads that lower it.                  *)
(***************************************************************************)
\* The calls of a refresh.
Refreshes == {"queue", "config"}

\* isLoading is not raised, and a refresh that settles is followed by another.
LEMMA LoadKept ==
  ASSUME LoadInv, NEW out, NEW in, Moves(out, in), hook' = hook, Up' => Up,
         cancelledRef' = cancelledRef, view'.loading => view.loading,
         \A c \in out : c.op \in Refreshes => \E d \in in : d.op \in Refreshes
  PROVE  LoadInv'
<1>1. ASSUME Up', view'.loading
      PROVE  \E c \in BagToSet(calls') : c.op \in Refreshes
  <2>1. PICK c \in BagToSet(calls) : c.op \in Refreshes
    BY <1>1 DEF LoadInv, LoadingSettles, Refreshes
  <2>2. CASE c \in out
    BY <2>1, <2>2 DEF Moves
  <2>3. CASE c \notin out
    BY <2>1, <2>3 DEF Moves
  <2>4. QED
    BY <2>2, <2>3
<1>2. QED
  BY <1>1 DEF LoadInv, LoadingSettles, Refreshes

\* isLoading is raised together with a read.
LEMMA LoadRaised ==
  ASSUME LoadInv, NEW out, NEW in, Moves(out, in), hook' = hook, Up' => ~cancelledRef',
         NEW d \in in, d.op \in Refreshes, hook \in {"useSyncQueue", "useSyncConfig"}
  PROVE  LoadInv'
  BY DEF LoadInv, LoadingSettles, Refreshes, Moves

\* What raising isLoading does to the view.
LEMMA LoadingView ==
  ASSUME StateOK, NEW ask, NEW v, v = [view EXCEPT !.loading = @ \/ Loading(ask)]
  PROVE  v.loading = (view.loading \/ Loading(ask))
  BY DEF StateOK, View

\* The effect raises isLoading with its reads.
LEMMA MountLoads ==
  ASSUME TypeInv, LoadInv, Mount
  PROVE  LoadInv'
<1> DEFINE ask == When(available, StartCalls(Current'))
<1>1. Current' = Current + 1 /\ Moves({}, ask)
  BY MountCalls
<1>2. hook' = hook /\ cancelledRef' = FALSE /\ Ran(ask)
  BY <1>1 DEF Mount, hook, fixed
<1>3. view'.loading = (view.loading \/ Loading(ask))
  BY <1>2, LoadingView DEF Ran, TypeInv
<1>4. CASE ~view'.loading
  BY <1>2, <1>4 DEF LoadInv, LoadingSettles
<1>5. CASE view'.loading
  <2>1. hook \in {"useSyncQueue", "useSyncConfig"}
    BY <1>3, <1>5 DEF LoadInv, Loading
  <2>2. available
    BY <1>3, <1>5 DEF TypeInv, IdleOK, Loading, When
  <2>3. \E d \in ask : d.op \in Refreshes
    BY <2>1, <2>2 DEF StartCalls, UseSyncQueueStart, UseSyncConfigStart, When, Ask, NewCall, Refreshes
  <2>4. QED
    BY <1>1, <1>2, <2>1, <2>3, LoadRaised
<1>6. QED
  BY <1>4, <1>5

\* The component raises it with a refresh.
LEMMA CallMadeLoads ==
  ASSUME TypeInv, LoadInv, Refresh \/ SetConfig \/ Tick \/ MirrorContext
  PROVE  LoadInv'
<1>1. hook' = hook /\ cancelledRef' = cancelledRef /\ Up' = Up
  BY DEF Refresh, SetConfig, Tick, MirrorContext, hook, fixed, refVars, Up, Current
<1>2. CASE Refresh
  <2>1. Moves({}, {RefreshCall}) /\ RefreshCall.op \in Refreshes
    BY <1>2, RefreshCalls DEF Refreshes
  <2>2. hook \in {"useSyncQueue", "useSyncConfig"}
    BY <1>2 DEF Refresh
  <2>3. QED
    BY <1>1, <2>1, <2>2, LoadRaised DEF LoadInv
<1>3. CASE SetConfig
  <2>1. Moves({}, {ConfigureCall}) /\ ConfigureCall.op = "configure" /\ Ran({ConfigureCall})
    BY <1>3, SetConfigCalls DEF SetConfig, ConfigureCall
  <2>2. view'.loading = (view.loading \/ Loading({ConfigureCall}))
    BY <2>1, LoadingView DEF Ran, TypeInv
  <2>3. view'.loading => view.loading
    BY <2>1, <2>2 DEF Loading
  <2>4. QED
    BY <1>1, <2>1, <2>3, LoadKept
<1>4. CASE Tick
  <2>1. Moves({}, {TickCall}) /\ view' = view
    BY <1>4, TickCalls DEF Tick
  <2>2. QED
    BY <1>1, <2>1, LoadKept
<1>5. CASE MirrorContext
  <2>1. Moves({}, {}) /\ view' = view
    BY <1>5, StayMoves DEF MirrorContext, TypeInv, CallsOK
  <2>2. QED
    BY <1>1, <2>1, LoadKept
<1>6. QED
  BY <1>2, <1>3, <1>4, <1>5

\* Native keeps the call until it has settled.
LEMMA ExecuteLoads ==
  ASSUME TypeInv, LoadInv, NEW c \in BagToSet(calls), Execute(c) \/ Fail(c)
  PROVE  LoadInv'
<1>1. hook' = hook /\ cancelledRef' = cancelledRef /\ Up' = Up /\ view' = view
  BY ExecuteFrame DEF refVars
<1>2. \/ \E d : Moves({c}, {d}) /\ d.op = c.op
      \/ Moves({c}, {}) /\ c.op \notin Refreshes
  BY Executes DEF HasRead, ReadInPart, HasWritten, HasDropped, HasFailed, Swallowed, Refreshes
<1>3. QED
  BY <1>1, <1>2, LoadKept

\* The view after a read, field by field.
LEMMA ShowingFields ==
  ASSUME NEW got
  PROVE  \A f \in DOMAIN view : Showing(got)[f] = IF f \in DOMAIN got THEN got[f] ELSE view[f]
  BY DEF Showing

\* A read that settles lowers isLoading, whether it worked or not.
LEMMA LoadingLowered ==
  ASSUME StateOK, NEW c, CallOK(c), Done(c), c.op \in ReadOps
  PROVE  ViewAfter(c).loading = (view.loading /\ hook \notin {"useSyncQueue", "useSyncConfig"})
<1>1. view \in View /\ hook \in AllHooks /\ view.loading \in BOOLEAN
  BY InstanceTyped DEF StateOK, View
<1>2. c.ok => Showing(c.got) \in View /\ Showing(c.got).loading = view.loading
  <2>1. c.ok => DOMAIN c.got = Parts(c.op) /\ "loading" \notin Parts(c.op)
    BY Brought DEF Parts, ReadOps
  <2>2. "loading" \in DOMAIN view
    BY <1>1 DEF View
  <2>3. QED
    BY <1>1, <2>1, <2>2, Brought, ShowingTyped, ShowingFields
<1>3. CASE hook = "useConnection"
  BY <1>1, <1>3 DEF ViewAfter, UseConnectionSettle, View
<1>4. CASE hook = "useSyncStatus"
  BY <1>1, <1>4 DEF ViewAfter, UseSyncStatusSettle, View
<1>5. CASE hook = "useSyncQueue"
  BY <1>1, <1>2, <1>5 DEF ViewAfter, UseSyncQueueSettle, View
<1>6. CASE hook = "useOfflineQueue"
  BY <1>1, <1>2, <1>6 DEF ViewAfter, UseOfflineQueueSettle
<1>7. CASE hook = "useSyncSnapshot"
  BY <1>1, <1>2, <1>7 DEF ViewAfter, UseSyncSnapshotSettle
<1>8. CASE hook = "useSyncConfig"
  BY <1>1, <1>2, <1>8 DEF ViewAfter, UseSyncConfigSettle, View
<1>9. CASE hook = "SyncProvider"
  BY <1>1, <1>2, <1>9 DEF ViewAfter, SyncProviderSettle
<1>10. CASE hook \in {"useSyncEvents", "useAutoSync"}
  BY <1>1, <1>10 DEF ViewAfter
<1>11. QED
  BY <1>1, <1>3, <1>4, <1>5, <1>6, <1>7, <1>8, <1>9, <1>10 DEF AllHooks

\* The ended effects, through a continuation.
LEMMA UpSettles ==
  ASSUME TypeInv, NEW c \in BagToSet(calls), Settle(c)
  PROVE  Up' = Up /\ \A g \in Run : effects'[g].ended = effects[g].ended /\ effects'[g].late = effects[g].late
<1>1. Current' = Current /\ Run' = Run /\ (Up => Current \in Run)
  BY SettleFrame, EffectsTyped DEF TypeInv
<1>2. \A g \in Run : effects'[g].ended = effects[g].ended /\ effects'[g].late = effects[g].late
  <2>1. CASE SettleAdd(c)
    BY <2>1, AddSettles
  <2>2. CASE ~SettleAdd(c)
    BY <2>2 DEF Settle, SettleRead, SettleConfigure, SettleEnable, FlushUnlessOffline, SafeFlush
  <2>3. QED
    BY <2>1, <2>2
<1>3. Current > 0 => Current \in Run
  BY EffectsTyped DEF TypeInv, Run, Current
<1>4. QED
  BY <1>1, <1>2, <1>3 DEF Up

\* A continuation lowers it, or goes on with a read.
LEMMA SettleLoads ==
  ASSUME TypeInv, LoadInv, NEW c \in BagToSet(calls), Settle(c)
  PROVE  LoadInv'
<1>1. hook' = hook /\ cancelledRef' = cancelledRef /\ Up' = Up
  BY SettleFrame, UpSettles
<1>2. CallOK(c) /\ hook \in AllHooks /\ view.loading \in BOOLEAN
  BY FromBag DEF TypeInv, StateOK, View
<1>3. CASE SettleRead(c)
  <2>1. Moves({c}, AfterRead(c)) /\ Done(c) /\ c.op \in ReadOps
    BY <1>3, ReadSettles DEF SettleRead
  <2>2. view' = IF Cancelled(c.by) THEN view ELSE ViewAfter(c)
    BY <1>3 DEF SettleRead
  <2>3. view'.loading => view.loading
    BY <1>2, <2>1, <2>2, LoadingLowered DEF TypeInv
  <2>4. CASE hook \in {"useSyncQueue", "useSyncConfig"} /\ Up
    <3>1. ~Cancelled(c.by)
      BY <2>4 DEF LoadInv, Cancelled
    <3>2. ~view'.loading
      BY <1>2, <2>1, <2>2, <2>4, <3>1, LoadingLowered DEF TypeInv
    <3>3. QED
      BY <1>1, <3>2 DEF LoadInv, LoadingSettles
  <2>5. CASE hook \notin {"useSyncQueue", "useSyncConfig"} \/ ~Up
    BY <1>1, <2>3, <2>5 DEF LoadInv, LoadingSettles
  <2>6. QED
    BY <2>4, <2>5
<1>4. CASE SettleConfigure(c)
  <2>1. Moves({c}, AfterConfigure(c)) /\ c.op \notin Refreshes
    BY <1>4, ConfigureSettles DEF SettleConfigure, Refreshes
  <2>2. view' = [view EXCEPT !.loading = @ \/ Loading(AfterConfigure(c))]
    BY <1>4 DEF SettleConfigure, AfterConfigure
  <2>3. view'.loading = (view.loading \/ Loading(AfterConfigure(c)))
    BY <2>2, LoadingView DEF TypeInv
  <2>4. CASE Loading(AfterConfigure(c))
    <3>1. PICK d \in AfterConfigure(c) : d.op \in Refreshes /\ hook \in {"useSyncQueue", "useSyncConfig"}
      BY <2>4 DEF Loading, Refreshes
    <3>2. Up' => ~cancelledRef'
      BY <1>1 DEF LoadInv
    <3>3. QED
      BY <1>1, <2>1, <3>1, <3>2, LoadRaised
  <2>5. CASE ~Loading(AfterConfigure(c))
    <3>1. view'.loading => view.loading
      BY <2>3, <2>5
    <3>2. QED
      BY <1>1, <2>1, <3>1, LoadKept
  <2>6. QED
    BY <2>4, <2>5
<1>5. CASE SettleEnable(c) \/ SettleAdd(c) \/ FlushUnlessOffline(c) \/ SafeFlush(c)
  <2>1. view' = view /\ c.op \notin Refreshes
    BY <1>5 DEF SettleEnable, SettleAdd, FlushUnlessOffline, SafeFlush, Refreshes
  <2>2. \E ask : Moves({c}, ask)
    BY <1>5, EnableSettles, AddSettles, StatusSettles, SyncingSettles
  <2>3. QED
    BY <1>1, <2>1, <2>2, LoadKept
<1>6. QED
  BY <1>3, <1>4, <1>5 DEF Settle

\* An event raises it with the read it asks for.
LEMMA HandleLoads ==
  ASSUME TypeInv, LoadInv, NEW k \in DOMAIN inbox, Handle(k)
  PROVE  LoadInv'
<1>1. hook' = hook /\ cancelledRef' = cancelledRef /\ Up' = Up
  BY DEF Handle, hook, fixed, Up, Current
<1>2. Moves({}, EventCalls(inbox[k]))
  BY HandleCalls
<1>3. view'.loading = (view.loading \/ Loading(EventCalls(inbox[k])))
  BY HandleView
<1>4. CASE Loading(EventCalls(inbox[k]))
  <2>1. PICK d \in EventCalls(inbox[k]) : d.op \in Refreshes /\ hook \in {"useSyncQueue", "useSyncConfig"}
    BY <1>4 DEF Loading, Refreshes
  <2>2. Up' => ~cancelledRef'
    BY <1>1 DEF LoadInv
  <2>3. QED
    BY <1>1, <1>2, <2>1, <2>2, LoadRaised
<1>5. CASE ~Loading(EventCalls(inbox[k]))
  <2>1. view'.loading => view.loading
    BY <1>3, <1>5
  <2>2. QED
    BY <1>1, <1>2, <2>1, LoadKept
<1>6. QED
  BY <1>4, <1>5

\* LoadInv is inductive.
LEMMA StepLoads ==
  ASSUME TypeInv, LoadInv, [Next]_vars
  PROVE  LoadInv'
<1>1. CASE Unmount
  <2>1. effects'[Current'].ended /\ hook' = hook /\ view' = view
    BY <1>1, UnmountCalls DEF Unmount, hook, fixed
  <2>2. QED
    BY <2>1 DEF LoadInv, LoadingSettles, Up
<1>2. CASE NativeChange \/ UNCHANGED vars
  <2>1. /\ hook' = hook /\ cancelledRef' = cancelledRef /\ Up' = Up /\ view' = view /\ calls' = calls
    BY <1>2, NativeFrame DEF refVars, vars, fixed, hook, Up, Current
  <2>2. QED
    BY <2>1, StayMoves, LoadKept DEF TypeInv, CallsOK
<1>3. QED
  BY <1>1, <1>2, MountLoads, CallMadeLoads, ExecuteLoads, SettleLoads, HandleLoads DEF Next

\* LoadInv holds in every reachable state.
LEMMA LoadsAlways == Spec => []LoadInv
<1>1. Init => LoadInv
  BY DEF Init, InitialView, LoadInv, LoadingSettles
<1>2. QED
  BY <1>1, TypesAlways, StepLoads, PTL DEF Spec

\* isLoading never stays up without a read under way that lowers it (LoadingSettles): the
\* finally of refresh in useSyncQueue and useSyncConfig, across cleanups and re-runs.
THEOREM LoadingSettled == Spec => []LoadingSettles
<1>1. LoadInv => LoadingSettles
  BY DEF LoadInv
<1>2. QED
  BY <1>1, LoadsAlways, PTL

-----------------------------------------------------------------------------
(***************************************************************************)
(* NoWildFlush: what a flush of useAutoSync is asked for.                  *)
(***************************************************************************)
\* No call brings news of the connection, and the connection is as it was.
LEMMA OnlineKept ==
  ASSUME OnlineInv, NEW out, NEW in, Moves(out, in), hook' = hook, inbox' = inbox,
         flushed' = {}, online' = online, world'.connection = world.connection,
         \A d \in in : HeardOf(d) => online
  PROVE  OnlineInv'
<1>1. \A c \in BagToSet(calls') : HeardOf(c) => online
  BY DEF Moves, OnlineInv
<1>2. \A c : HeardOf(c)' <=> HeardOf(c)
  BY DEF HeardOf
<1>3. \A k \in DOMAIN inbox' : TellsOf(inbox[k])' => online'
  BY DEF OnlineInv, TellsOf
<1>4. QED
  BY <1>1, <1>2, <1>3 DEF OnlineInv

\* A call just asked for tells nothing of the connection.
LEMMA Unheard ==
  ASSUME NEW c, NEW g, Asked(c, g), hook # "useAutoSync" \/ c.op # "syncing"
  PROVE  ~HeardOf(c)
  BY AskedFields DEF HeardOf

\* The component asks for nothing but reads.
LEMMA MadeOnline ==
  ASSUME TypeInv, OnlineInv, Mount \/ Unmount \/ Refresh \/ SetConfig \/ Tick \/ MirrorContext
  PROVE  OnlineInv'
<1>1. hook' = hook /\ inbox' = inbox /\ flushed' = {} /\ online' = online /\ world'.connection = world.connection
  BY DEF Mount, Unmount, Refresh, SetConfig, Tick, MirrorContext, hook, fixed, history, nativeVars, OnlineInv
<1>2. CASE Mount
  <2> DEFINE ask == When(available, StartCalls(Current'))
  <2>1. Moves({}, ask) /\ \A c \in ask : Asked(c, Current')
    BY <1>2, MountCalls
  <2>2. \A c \in ask : hook = "useAutoSync" => c.op # "syncing"
    BY DEF When, StartCalls, UseAutoSyncStart, Ask, NewCall
  <2> HIDE DEF ask
  <2>3. QED
    BY <1>1, <2>1, <2>2, Unheard, OnlineKept
<1>3. CASE Unmount
  <2>1. Moves({}, CleanupCalls) /\ \A c \in CleanupCalls : Asked(c, Current) /\ c.op # "syncing"
    BY <1>3, UnmountCalls
  <2>2. QED
    BY <1>1, <2>1, Unheard, OnlineKept
<1>4. CASE Refresh
  BY <1>1, <1>4, RefreshCalls, Unheard, OnlineKept
<1>5. CASE SetConfig
  BY <1>1, <1>5, SetConfigCalls, Unheard, OnlineKept
<1>6. CASE Tick
  BY <1>1, <1>6, TickCalls, Unheard, OnlineKept
<1>7. CASE MirrorContext
  <2>1. Moves({}, {})
    BY <1>7, StayMoves DEF MirrorContext, TypeInv, CallsOK
  <2>2. QED
    BY <1>1, <2>1, OnlineKept
<1>8. QED
  BY <1>2, <1>3, <1>4, <1>5, <1>6, <1>7

\* A change of the connection is noted in online.
LEMMA ChangeOnline ==
  ASSUME TypeInv, OnlineInv, NativeChange
  PROVE  OnlineInv'
<1>1. hook' = hook /\ calls' = calls /\ flushed' = {}
  BY NativeFrame DEF OnlineInv
<1>2. ASSUME NEW type \in SyncEventType, NEW status \in ConnectionStatus \cup {"none"}, Emit(type, status),
             online => online', world'.connection # "DISCONNECTED" => online',
             type = "CONNECTION_CHANGED" /\ status # "DISCONNECTED" => online'
      PROVE  OnlineInv'
  <2>1. Emitted(type, status)
    BY <1>2, EmitFacts
  <2>2. ASSUME NEW i \in DOMAIN inbox'
        PROVE  TellsOf(inbox[i])' => online'
    <3>1. CASE i \in DOMAIN inbox /\ inbox'[i] = inbox[i]
      BY <1>2, <3>1 DEF OnlineInv, TellsOf
    <3>2. CASE inbox'[i].type = type /\ inbox'[i].status = status
      BY <1>2, <3>2 DEF TellsOf
    <3>3. QED
      BY <2>1, <3>1, <3>2, OldOrNew
  <2>3. \A c \in BagToSet(calls') : HeardOf(c)' => online'
    BY <1>1, <1>2 DEF OnlineInv, HeardOf
  <2>4. QED
    BY <1>1, <1>2, <2>2, <2>3 DEF OnlineInv
<1>3. CASE ConnectionChanges
  <2>1. PICK status \in {"CONNECTED", "METERED", "DISCONNECTED"} :
          /\ world' = [world EXCEPT !.connection = status]
          /\ online' = (online \/ status # "DISCONNECTED")
          /\ Emit("CONNECTION_CHANGED", status)
    BY <1>3 DEF ConnectionChanges, Announce
  <2>2. world'.connection = status
    BY <2>1 DEF TypeInv, StateOK, World
  <2>3. "CONNECTION_CHANGED" \in SyncEventType /\ status \in ConnectionStatus
    BY DEF SyncEventType, ConnectionStatus
  <2>4. /\ online => online'
        /\ status # "DISCONNECTED" => online'
    BY <2>1
  <2>5. QED
    BY <1>2, <2>1, <2>2, <2>3, <2>4
<1>4. CASE QueueChanges \/ CycleStarts \/ CycleCloses \/ PauseChanges
  <2>1. world'.connection = world.connection /\ online' = online
    <3>1. CASE CycleCloses
      BY <3>1, ClosedWorld DEF CycleCloses
    <3>2. CASE QueueChanges \/ CycleStarts \/ PauseChanges
      BY <3>2 DEF QueueChanges, CycleStarts, PauseChanges, TypeInv, StateOK, World
    <3>3. QED
      BY <1>4, <3>1, <3>2
  <2>2. PICK type \in SyncEventType \ {"CONNECTION_CHANGED"} : Emit(type, "none")
    BY <1>4 DEF QueueChanges, CycleStarts, CycleCloses, PauseChanges, Announce, SyncEventType, RefreshEvents,
                QueueEvents, ClosingEvents
  <2>3. QED
    BY <1>2, <2>1, <2>2 DEF OnlineInv
<1>5. CASE Untold
  <2>1. world'.connection = world.connection /\ online' = online /\ inbox' = inbox
    <3>1. CASE CycleEndsSilently
      BY <3>1, SilentWorld
    <3>2. CASE CycleReturns \/ ClearHistory \/ Reconfigured
      BY <3>2 DEF CycleReturns, ClearHistory, Reconfigured, history, TypeInv, StateOK, World
    <3>3. QED
      BY <1>5, <3>1, <3>2 DEF Untold
  <2>2. QED
    BY <1>1, <2>1, StayMoves, OnlineKept DEF TypeInv, CallsOK
<1>6. QED
  BY <1>3, <1>4, <1>5 DEF NativeChange, Untold

\* A read of the connection answers what native holds.
LEMMA ExecuteOnline ==
  ASSUME TypeInv, OnlineInv, NEW c \in BagToSet(calls), Execute(c) \/ Fail(c)
  PROVE  OnlineInv'
<1>1. hook' = hook /\ inbox' = inbox /\ flushed' = {} /\ online' = online
  BY ExecuteFrame DEF OnlineInv
<1>2. HeardOf(c) => online
  BY DEF OnlineInv
<1>3. ASSUME NEW part, NEW d, HasRead(c, part, d)
      PROVE  OnlineInv'
  <2>1. Moves({c}, {d}) /\ world' = world
    BY <1>3 DEF HasRead, ReadInPart
  <2>2. HeardOf(d) => online
    <3>1. CASE part = "connection"
      BY <1>2, <1>3, <3>1 DEF HeardOf, OnlineInv, HasRead, ReadInPart
    <3>2. CASE part # "connection"
      BY <1>2, <1>3, <3>2 DEF HeardOf, HasRead, ReadInPart
    <3>3. QED
      BY <3>1, <3>2
  <2>3. QED
    BY <1>1, <2>1, <2>2, OnlineKept
<1>4. ASSUME NEW d, HasWritten(c, d) \/ HasFailed(c, d)
      PROVE  OnlineInv'
  <2>1. Moves({c}, {d}) /\ d.op = c.op /\ d.got = c.got
    BY <1>4 DEF HasWritten, HasFailed
  <2>2. world'.connection = world.connection
    BY <1>4 DEF HasWritten, HasFailed, TypeInv, StateOK, World
  <2>3. HeardOf(d) => online
    BY <1>2, <2>1 DEF HeardOf
  <2>4. QED
    BY <1>1, <2>1, <2>2, <2>3, OnlineKept
<1>5. CASE HasDropped(c)
  <2>1. Moves({c}, {}) /\ world'.connection = world.connection
    BY <1>5 DEF HasDropped, TypeInv, StateOK, World
  <2>2. QED
    BY <1>1, <2>1, OnlineKept
<1>6. QED
  BY <1>3, <1>4, <1>5, Executes

\* A flush is asked for after a status that is not DISCONNECTED, and by a live run.
LEMMA SettleOnline ==
  ASSUME TypeInv, OnlineInv, NEW c \in BagToSet(calls), Settle(c)
  PROVE  OnlineInv'
<1>1. hook' = hook /\ inbox' = inbox /\ online' = online /\ world'.connection = world.connection
  BY SettleFrame DEF nativeVars
<1>2. HeardOf(c) => online
  BY DEF OnlineInv
<1>3. ASSUME NEW ask, Moves({c}, ask), \A d \in ask : Asked(d, c.by) /\ d.op # "syncing", flushed' = {}
      PROVE  OnlineInv'
  BY <1>1, <1>3, Unheard, OnlineKept
<1>4. CASE SettleRead(c) \/ SettleConfigure(c) \/ SettleEnable(c) \/ SettleAdd(c)
  <2>1. flushed' = {}
    BY <1>4 DEF SettleRead, SettleConfigure, SettleEnable, SettleAdd, history, OnlineInv
  <2>2. \E ask : Moves({c}, ask) /\ \A d \in ask : Asked(d, c.by) /\ d.op # "syncing"
    <3>1. CASE SettleRead(c)
      BY <3>1, ReadSettles
    <3>2. CASE SettleConfigure(c)
      BY <3>2, ConfigureSettles
    <3>3. CASE SettleEnable(c)
      BY <3>3, EnableSettles
    <3>4. CASE SettleAdd(c)
      BY <3>4, AddSettles
    <3>5. QED
      BY <1>4, <3>1, <3>2, <3>3, <3>4
  <2>3. QED
    BY <1>3, <2>1, <2>2
<1>5. CASE FlushUnlessOffline(c)
  <2>1. Moves({c}, AfterStatus(c)) /\ flushed' = {}
    BY <1>5, StatusSettles DEF FlushUnlessOffline, history, OnlineInv
  <2>2. ASSUME NEW d \in AfterStatus(c)
        PROVE  online
    <3>1. c.ok /\ c.got["connection"] # "DISCONNECTED"
      BY DEF AfterStatus, When
    <3>2. DOMAIN c.got = Parts(c.op) /\ c.op = "connection"
      BY <1>5, <3>1, FromBag, Brought DEF FlushUnlessOffline, ReadOps
    <3>3. QED
      BY <1>2, <3>1, <3>2 DEF HeardOf, Parts
  <2>3. QED
    BY <1>1, <2>1, <2>2, OnlineKept
<1>6. CASE SafeFlush(c)
  <2>1. Moves({c}, AfterSyncing(c)) /\ \A d \in AfterSyncing(c) : Asked(d, c.by) /\ d.op = "flush"
    BY <1>6, SyncingSettles
  <2>2. online /\ hook = "useAutoSync"
    BY <1>2, <1>6 DEF SafeFlush, HeardOf
  <2>3. flushed' = {}
    BY <1>6, <2>2 DEF SafeFlush, OnlineInv, When, Cancelled
  <2>4. QED
    BY <1>3, <2>1, <2>3
<1>7. QED
  BY <1>4, <1>5, <1>6 DEF Settle

\* A CONNECTED event asks for a probe; it was emitted while connected.
LEMMA HandleOnline ==
  ASSUME TypeInv, OnlineInv, NEW k \in DOMAIN inbox, Handle(k)
  PROVE  OnlineInv'
<1>1. hook' = hook /\ flushed' = {} /\ online' = online /\ world' = world
  BY DEF Handle, hook, fixed, history, nativeVars, OnlineInv
<1>2. Moves({}, EventCalls(inbox[k])) /\ \A c \in EventCalls(inbox[k]) : Asked(c, inbox[k].to)
  BY HandleCalls
<1>3. ASSUME NEW c \in EventCalls(inbox[k])
      PROVE  HeardOf(c) => online
  <2>1. CASE hook # "useAutoSync"
    BY <1>2, <2>1, Unheard
  <2>2. CASE hook = "useAutoSync"
    <3>1. TellsOf(inbox[k])
      BY <2>2 DEF EventCalls, UseAutoSyncEvent, When, TellsOf
    <3>2. QED
      BY <3>1 DEF OnlineInv
  <2>3. QED
    BY <2>1, <2>2
<1>4. \A c \in BagToSet(calls') : HeardOf(c)' => online'
  BY <1>1, <1>2, <1>3 DEF Moves, OnlineInv, HeardOf
<1>5. ASSUME NEW i \in DOMAIN inbox'
      PROVE  TellsOf(inbox[i])' => online'
  <2>1. \E j \in DOMAIN inbox : inbox'[i] = inbox[j]
    BY HandleFacts DEF Handled
  <2>2. QED
    BY <1>1, <2>1 DEF OnlineInv, TellsOf
<1>6. QED
  BY <1>1, <1>4, <1>5 DEF OnlineInv

\* OnlineInv is inductive.
LEMMA StepOnline ==
  ASSUME TypeInv, OnlineInv, [Next]_vars
  PROVE  OnlineInv'
<1>1. CASE UNCHANGED vars
  BY <1>1 DEF vars, fixed, history, nativeVars, hook, OnlineInv, HeardOf, TellsOf
<1>2. QED
  BY <1>1, MadeOnline, ChangeOnline, ExecuteOnline, SettleOnline, HandleOnline DEF Next

\* OnlineInv holds in every reachable state.
LEMMA OnlineAlways == Spec => []OnlineInv
<1>1. Init => OnlineInv
  <2> SUFFICES ASSUME Init PROVE OnlineInv
    OBVIOUS
  <2>1. BagToSet(calls) = {} /\ DOMAIN inbox = {}
    BY DEF Init, EmptyBag, SetToBag, BagToSet
  <2>2. QED
    BY <2>1 DEF Init, OnlineInv
<1>2. QED
  BY <1>1, TypesAlways, StepOnline, PTL DEF Spec

\* useAutoSync asks for a flush neither after its cleanup nor when the device was never
\* connected (NoWildFlush): the checks of flushUnlessOffline and safeFlush after their awaits.
THEOREM FlushesTame == Spec => []NoWildFlush
<1>1. OnlineInv => NoWildFlush
  BY DEF OnlineInv, NoWildFlush
<1>2. QED
  BY <1>1, OnlineAlways, PTL

-----------------------------------------------------------------------------
(***************************************************************************)
(* LeakOnlyInWindow: the listeners and the calls that add and remove them. *)
(***************************************************************************)
\* Whether a call may yet subscribe does not change with time.
LEMMA SeedsKept ==
  ASSUME hook' = hook
  PROVE  \A c : Seed(c)' <=> Seed(c)
  BY DEF Seed, Enabling

\* A call is followed by at most one call that may yet subscribe, of the same run.
LEMMA HandOver ==
  ASSUME TypeInv, ListenInv, NEW c \in BagToSet(calls), NEW in, Moves({c}, in),
         hook' = hook, effects' = effects,
         \A d \in in : d # c /\ d.by = c.by /\ d.op # "remove",
         \A d \in in : Seed(d) => Seed(c) /\ (c.by \in listeners' => d.op = "add" /\ d.todo = {} /\ d.ok),
         \A d, e \in in : Seed(d) /\ Seed(e) => d = e,
         \A g : g # c.by => (g \in listeners' <=> g \in listeners),
         c.by \in listeners' => c.by \in listeners \/ \E d \in in : d.op = "add",
         c.op \in {"add", "remove"} /\ c.by \in listeners' => \E d \in in : d.op = "add"
  PROVE  ListenInv'
<1>1. Seed(c) => c \notin BagToSet(calls')
  BY DEF Moves, ListenInv, SeedOK
<1>2. ASSUME NEW e \in BagToSet(calls'), e \notin in
      PROVE  e \in BagToSet(calls) /\ (e # c => calls'[e] = calls[e])
  BY <1>2 DEF Moves
<1>3. ASSUME NEW e \in BagToSet(calls'), Seed(e)
      PROVE  SeedOK(e)'
  <2>1. CASE e \in in
    <3>1. Seed(c) /\ e.by = c.by /\ e # c /\ SeedOK(c)
      BY <1>3, <2>1 DEF ListenInv
    <3>2. e \notin BagToSet(calls)
      BY <1>3, <3>1 DEF SeedOK
    <3>3. calls'[e] = 1
      BY <2>1, <3>2 DEF Moves
    <3>4. ASSUME NEW d \in BagToSet(calls'), Seed(d), d.by = e.by
          PROVE  d = e
      BY <1>1, <1>2, <1>3, <2>1, <3>1, <3>4 DEF SeedOK
    <3>5. c.by \in listeners' => e.op = "add" /\ e.todo = {} /\ e.ok
      BY <1>3, <2>1
    <3>6. QED
      BY <3>1, <3>3, <3>4, <3>5, SeedsKept DEF SeedOK
  <2>2. CASE e \notin in
    <3>1. e \in BagToSet(calls) /\ e # c /\ calls'[e] = calls[e] /\ SeedOK(e)
      BY <1>1, <1>2, <1>3, <2>2 DEF ListenInv
    <3>2. Seed(c) => e.by # c.by
      BY <1>3, <3>1 DEF ListenInv, SeedOK
    <3>3. ASSUME NEW d \in BagToSet(calls'), Seed(d), d.by = e.by
          PROVE  d = e
      BY <1>2, <3>1, <3>2, <3>3 DEF SeedOK
    <3>4. e.by \in listeners' => e.by \in listeners
      <4>1. \A d \in in : d.op = "add" => Seed(d)
        BY DEF Seed
      <4>2. QED
        BY <3>2, <4>1
    <3>5. QED
      BY <3>1, <3>3, <3>4, SeedsKept DEF SeedOK
  <2>3. QED
    BY <2>1, <2>2
<1>4. ASSUME NEW r \in BagToSet(calls'), r.op = "remove"
      PROVE  RemoveOK(r)'
  <2>1. r \in BagToSet(calls) /\ RemoveOK(r)
    BY <1>2, <1>4 DEF ListenInv
  <2>2. ASSUME NEW d \in BagToSet(calls'), Seed(d)
        PROVE  d.by # r.by
    BY <1>2, <2>1, <2>2 DEF RemoveOK
  <2>3. QED
    BY <2>1, <2>2, SeedsKept DEF RemoveOK
<1>5. ASSUME NEW g \in listeners', NEW x \in BagToSet(calls), x.by = g, x.op \in {"add", "remove"}
      PROVE  \E y \in BagToSet(calls') : y.by = g /\ (y.op = "add" \/ y.op = x.op)
  <2>1. CASE x = c
    BY <1>5, <2>1 DEF Moves
  <2>2. CASE x # c
    BY <1>5, <2>2 DEF Moves
  <2>3. QED
    BY <2>1, <2>2
<1>6. ASSUME NEW g \in listeners', ~effects[g].ended
      PROVE  effects[g].subscribed \/ \E y \in BagToSet(calls') : y.op = "add" /\ y.by = g
  <2>1. g \in listeners \/ (g = c.by /\ \E d \in in : d.op = "add")
    OBVIOUS
  <2>2. CASE g = c.by /\ \E d \in in : d.op = "add"
    BY <2>2 DEF Moves
  <2>3. CASE g \in listeners
    BY <1>5, <1>6, <2>3 DEF ListenInv
  <2>4. QED
    BY <2>1, <2>2, <2>3
<1>7. ASSUME NEW g \in listeners', effects[g].ended
      PROVE  \/ "listener" \in effects[g].late /\ hook # "useSyncEvents"
             \/ \E y \in BagToSet(calls') : y.by = g /\ y.op \in {"add", "remove"}
  <2>1. g \in listeners \/ (g = c.by /\ \E d \in in : d.op = "add")
    OBVIOUS
  <2>2. CASE g = c.by /\ \E d \in in : d.op = "add"
    BY <2>2 DEF Moves
  <2>3. CASE g \in listeners
    BY <1>5, <1>7, <2>3 DEF ListenInv, LeakOnlyInWindow
  <2>4. QED
    BY <2>1, <2>2, <2>3
<1>8. QED
  BY <1>3, <1>4, <1>6, <1>7, SeedsKept DEF ListenInv, LeakOnlyInWindow

\* Calls that have nothing to do with the listener.
LEMMA ListenStill ==
  ASSUME TypeInv, ListenInv, NEW in, Moves({}, in), hook' = hook, effects' = effects, listeners' = listeners,
         \A d \in in : ~Seed(d) /\ d.op # "remove"
  PROVE  ListenInv'
<1>1. ASSUME NEW e \in BagToSet(calls'), e \notin in
      PROVE  e \in BagToSet(calls) /\ calls'[e] = calls[e]
  BY <1>1 DEF Moves
<1>2. BagToSet(calls) \subseteq BagToSet(calls')
  BY DEF Moves
<1>3. ASSUME NEW e \in BagToSet(calls'), Seed(e)
      PROVE  SeedOK(e)'
  <2>1. e \in BagToSet(calls) /\ calls'[e] = calls[e] /\ SeedOK(e)
    BY <1>1, <1>3 DEF ListenInv
  <2>2. ASSUME NEW d \in BagToSet(calls'), Seed(d), d.by = e.by
        PROVE  d = e
    BY <1>1, <2>1, <2>2 DEF SeedOK
  <2>3. QED
    BY <2>1, <2>2, SeedsKept DEF SeedOK
<1>4. ASSUME NEW r \in BagToSet(calls'), r.op = "remove"
      PROVE  RemoveOK(r)'
  <2>1. r \in BagToSet(calls) /\ RemoveOK(r)
    BY <1>1, <1>4 DEF ListenInv
  <2>2. QED
    BY <1>1, <2>1, SeedsKept DEF RemoveOK
<1>5. QED
  BY <1>2, <1>3, <1>4, SeedsKept DEF ListenInv, LeakOnlyInWindow

\* The effect starts with one call that may subscribe.
SeedOf(g) ==
  CASE hook = "useConnection" -> NewCall("connection", g, "add", "none")
    [] hook = "useSyncStatus" -> NewCall("last", g, "add", "none")
    [] hook = "SyncProvider"  -> NewCall("configure", g, "config", "none")
    [] OTHER                  -> Ask("add", g)

\* No other call of the effect may subscribe, and none removes.
LEMMA StartSeeds ==
  ASSUME hook \in AllHooks, NEW g, NEW c \in StartCalls(g)
  PROVE  (Seed(c) => c = SeedOf(g)) /\ c.op # "remove"
<1> USE DEF Seed, Enabling, StartCalls, Ask, NewCall, SeedOf
<1>1. CASE hook = "useConnection"
  BY <1>1 DEF UseConnectionStart
<1>2. CASE hook = "useSyncStatus"
  BY <1>2 DEF UseSyncStatusStart
<1>3. CASE hook = "useSyncQueue"
  BY <1>3 DEF UseSyncQueueStart
<1>4. CASE hook = "useOfflineQueue"
  BY <1>4 DEF UseOfflineQueueStart
<1>5. CASE hook = "useSyncSnapshot"
  BY <1>5 DEF UseSyncSnapshotStart
<1>6. CASE hook = "useSyncEvents"
  BY <1>6 DEF UseSyncEventsStart
<1>7. CASE hook = "useSyncConfig"
  BY <1>7 DEF UseSyncConfigStart
<1>8. CASE hook = "useAutoSync"
  BY <1>8 DEF UseAutoSyncStart
<1>9. CASE hook = "SyncProvider"
  BY <1>9 DEF SyncProviderStart
<1>10. QED
  BY <1>1, <1>2, <1>3, <1>4, <1>5, <1>6, <1>7, <1>8, <1>9 DEF AllHooks

\* No event makes a hook subscribe or unsubscribe.
LEMMA EventSeeds ==
  ASSUME hook \in AllHooks, NEW e, NEW c \in EventCalls(e)
  PROVE  ~Seed(c) /\ c.op # "remove"
<1> USE DEF Seed, Enabling, EventCalls, Ask, NewCall, When
<1>1. CASE hook = "useConnection"
  BY <1>1 DEF UseConnectionEvent
<1>2. CASE hook = "useSyncStatus"
  BY <1>2 DEF UseSyncStatusEvent
<1>3. CASE hook = "useSyncQueue"
  BY <1>3 DEF UseSyncQueueEvent
<1>4. CASE hook = "useOfflineQueue"
  BY <1>4 DEF UseOfflineQueueEvent
<1>5. CASE hook = "useSyncSnapshot"
  BY <1>5 DEF UseSyncSnapshotEvent
<1>6. CASE hook = "useSyncEvents"
  BY <1>6
<1>7. CASE hook = "useSyncConfig"
  BY <1>7 DEF UseSyncConfigEvent
<1>8. CASE hook = "useAutoSync"
  BY <1>8 DEF UseAutoSyncEvent
<1>9. CASE hook = "SyncProvider"
  BY <1>9 DEF SyncProviderEvent
<1>10. QED
  BY <1>1, <1>2, <1>3, <1>4, <1>5, <1>6, <1>7, <1>8, <1>9 DEF AllHooks

\* A new run has one call that may subscribe, and no listener yet.
LEMMA MountListens ==
  ASSUME TypeInv, ListenInv, Mount
  PROVE  ListenInv'
<1> DEFINE ask == When(available, StartCalls(Current'))
<1>1. /\ Current' \notin Run /\ Moves({}, ask) /\ \A c \in ask : c.by = Current'
      /\ \A g \in Run : effects'[g] = effects[g]
      /\ effects'[Current'] = [ended |-> FALSE, subscribed |-> FALSE, late |-> {}]
  BY MountCalls, AskedFields
<1>2. hook' = hook /\ listeners' = listeners /\ listeners \subseteq Run /\ hook \in AllHooks
  BY InstanceTyped DEF Mount, hook, fixed, nativeVars, TypeInv, StateOK
<1>3. /\ \A c, d \in ask : Seed(c) /\ Seed(d) => c = d
      /\ \A c \in ask : c.op # "remove"
  BY <1>2, StartSeeds DEF When
<1> HIDE DEF ask
<1>4. \A c \in BagToSet(calls) : c.by \in Run
  BY FromBag
<1>5. ASSUME NEW e \in BagToSet(calls'), e \notin ask
      PROVE  e \in BagToSet(calls) /\ calls'[e] = calls[e]
  BY <1>1, <1>5 DEF Moves
<1>6. BagToSet(calls) \subseteq BagToSet(calls')
  BY <1>1 DEF Moves
<1>7. ASSUME NEW e \in BagToSet(calls'), Seed(e)
      PROVE  SeedOK(e)'
  <2>1. CASE e \in ask
    <3>1. e.by = Current' /\ e \notin BagToSet(calls) /\ calls'[e] = 1
      BY <1>1, <1>4, <2>1 DEF Moves
    <3>2. ASSUME NEW d \in BagToSet(calls'), Seed(d), d.by = e.by
          PROVE  d = e
      BY <1>1, <1>3, <1>4, <1>5, <1>7, <2>1, <3>1, <3>2
    <3>3. ~effects'[e.by].subscribed /\ ~effects'[e.by].ended /\ e.by \notin listeners'
      BY <1>1, <1>2, <3>1
    <3>4. QED
      BY <1>2, <3>1, <3>2, <3>3, SeedsKept DEF SeedOK
  <2>2. CASE e \notin ask
    <3>1. e \in BagToSet(calls) /\ calls'[e] = calls[e] /\ SeedOK(e) /\ e.by \in Run
      BY <1>4, <1>5, <1>7, <2>2 DEF ListenInv
    <3>2. ASSUME NEW d \in BagToSet(calls'), Seed(d), d.by = e.by
          PROVE  d = e
      BY <1>1, <1>5, <3>1, <3>2 DEF SeedOK
    <3>3. QED
      BY <1>1, <1>2, <3>1, <3>2, SeedsKept DEF SeedOK
  <2>3. QED
    BY <2>1, <2>2
<1>8. ASSUME NEW r \in BagToSet(calls'), r.op = "remove"
      PROVE  RemoveOK(r)'
  <2>1. r \in BagToSet(calls) /\ RemoveOK(r) /\ r.by \in Run
    BY <1>3, <1>4, <1>5, <1>8 DEF ListenInv
  <2>2. ASSUME NEW d \in BagToSet(calls'), Seed(d)
        PROVE  d.by # r.by
    BY <1>1, <1>5, <2>1, <2>2 DEF RemoveOK
  <2>3. QED
    BY <1>1, <1>2, <2>1, <2>2, SeedsKept DEF RemoveOK
<1>9. \A g \in listeners' : effects'[g] = effects[g] /\ g \in listeners
  BY <1>1, <1>2
<1>10. QED
  BY <1>2, <1>6, <1>7, <1>8, <1>9, SeedsKept DEF ListenInv, LeakOnlyInWindow

\* The cleanup removes the listener if its id is known, and notes it if it is not.
LEMMA UnmountListens ==
  ASSUME TypeInv, ListenInv, Unmount
  PROVE  ListenInv'
<1>1. /\ Current \in Run /\ \A g \in Run \ {Current} : effects'[g] = effects[g]
      /\ effects'[Current].ended
      /\ effects'[Current].subscribed = effects[Current].subscribed
      /\ ~effects[Current].subscribed => "listener" \in effects'[Current].late
      /\ Moves({}, CleanupCalls)
      /\ \A c \in CleanupCalls : Asked(c, Current) /\ c.op \in {"remove", "disable"}
  BY UnmountCalls DEF When
<1>2. hook' = hook /\ listeners' = listeners /\ listeners \subseteq Run
  BY DEF Unmount, hook, fixed, nativeVars, TypeInv, StateOK
<1>3. \A c \in CleanupCalls : ~Seed(c) /\ c.by = Current /\ (c.op = "remove" => effects[Current].subscribed)
  BY <1>1, AskedFields DEF Seed, Enabling, CleanupCalls, When, Ask, NewCall
<1>4. ASSUME NEW e \in BagToSet(calls'), e \notin CleanupCalls
      PROVE  e \in BagToSet(calls) /\ calls'[e] = calls[e]
  BY <1>1, <1>4 DEF Moves
<1>5. BagToSet(calls) \subseteq BagToSet(calls')
  BY <1>1 DEF Moves
<1>6. \A c \in BagToSet(calls) : c.by \in Run
  BY FromBag
<1>7. ASSUME NEW e \in BagToSet(calls'), Seed(e)
      PROVE  SeedOK(e)' /\ e \in BagToSet(calls) /\ SeedOK(e)
  <2>1. e \in BagToSet(calls) /\ calls'[e] = calls[e] /\ SeedOK(e) /\ e.by \in Run
    BY <1>3, <1>4, <1>6, <1>7 DEF ListenInv
  <2>2. ASSUME NEW d \in BagToSet(calls'), Seed(d), d.by = e.by
        PROVE  d = e
    BY <1>3, <1>4, <2>1, <2>2 DEF SeedOK
  <2>3. ~effects'[e.by].subscribed
    BY <1>1, <2>1 DEF SeedOK
  <2>4. effects'[e.by].ended => "listener" \in effects'[e.by].late
    BY <1>1, <2>1 DEF SeedOK
  <2>5. QED
    BY <1>2, <2>1, <2>2, <2>3, <2>4, SeedsKept DEF SeedOK
<1>8. ASSUME NEW r \in BagToSet(calls'), r.op = "remove"
      PROVE  RemoveOK(r)'
  <2>1. CASE r \in CleanupCalls
    <3>1. r.by = Current /\ effects[Current].subscribed
      BY <1>3, <1>8, <2>1
    <3>2. ASSUME NEW d \in BagToSet(calls'), Seed(d)
          PROVE  d.by # r.by
      BY <1>7, <3>1, <3>2 DEF SeedOK
    <3>3. QED
      BY <1>1, <1>2, <3>1, <3>2, SeedsKept DEF RemoveOK
  <2>2. CASE r \notin CleanupCalls
    <3>1. r \in BagToSet(calls) /\ RemoveOK(r) /\ r.by \in Run
      BY <1>4, <1>6, <1>8, <2>2 DEF ListenInv
    <3>2. \A d \in BagToSet(calls') : Seed(d) => d.by # r.by
      BY <1>7, <3>1 DEF RemoveOK
    <3>3. effects'[r.by].ended
      BY <1>1, <3>1 DEF RemoveOK
    <3>4. QED
      BY <1>2, <3>2, <3>3, SeedsKept DEF RemoveOK
  <2>3. QED
    BY <2>1, <2>2
<1>9. ASSUME NEW g \in listeners'
      PROVE  /\ ~effects'[g].ended =>
                  effects'[g].subscribed \/ \E c \in BagToSet(calls') : c.op = "add" /\ c.by = g
             /\ effects'[g].ended =>
                  \/ "listener" \in effects'[g].late /\ hook # "useSyncEvents"
                  \/ \E c \in BagToSet(calls') : c.by = g /\ c.op \in {"add", "remove"}
  <2>1. g \in listeners /\ g \in Run
    BY <1>2
  <2>2. CASE g = Current
    <3>1. effects'[g].ended /\ ~effects[g].ended
      BY <1>1, <2>2 DEF Unmount, Up
    <3>2. CASE effects[g].subscribed
      <4>1. Ask("remove", Current) \in CleanupCalls
        BY <2>2, <3>2 DEF CleanupCalls, When
      <4>2. Ask("remove", Current).by = Current /\ Ask("remove", Current).op = "remove"
        BY DEF Ask, NewCall
      <4>3. QED
        BY <1>1, <2>2, <3>1, <4>1, <4>2 DEF Moves
    <3>3. CASE ~effects[g].subscribed
      BY <1>5, <2>1, <3>1, <3>3 DEF ListenInv
    <3>4. QED
      BY <3>2, <3>3
  <2>3. CASE g # Current
    <3>1. effects'[g] = effects[g]
      BY <1>1, <2>1, <2>3
    <3>2. QED
      BY <1>5, <2>1, <3>1 DEF ListenInv, LeakOnlyInWindow
  <2>4. QED
    BY <2>2, <2>3
<1>10. QED
  BY <1>2, <1>7, <1>8, <1>9, SeedsKept DEF ListenInv, LeakOnlyInWindow

\* The component and native changes have nothing to do with the listener.
LEMMA StillListens ==
  ASSUME TypeInv, ListenInv, Refresh \/ SetConfig \/ Tick \/ MirrorContext \/ NativeChange \/ UNCHANGED vars
  PROVE  ListenInv'
<1>1. hook' = hook /\ effects' = effects /\ listeners' = listeners
  BY NativeFrame DEF Refresh, SetConfig, Tick, MirrorContext, vars, hook, fixed, nativeVars
<1>2. CASE Refresh
  <2>1. Moves({}, {RefreshCall}) /\ ~Seed(RefreshCall) /\ RefreshCall.op # "remove"
    BY <1>2, RefreshCalls DEF Seed, Enabling
  <2>2. QED
    BY <1>1, <2>1, ListenStill
<1>3. CASE SetConfig
  <2>1. Moves({}, {ConfigureCall}) /\ ~Seed(ConfigureCall) /\ ConfigureCall.op # "remove"
    BY <1>3, SetConfigCalls DEF Seed, Enabling, SetConfig
  <2>2. QED
    BY <1>1, <2>1, ListenStill
<1>4. CASE Tick
  <2>1. Moves({}, {TickCall}) /\ ~Seed(TickCall) /\ TickCall.op # "remove"
    BY <1>4, TickCalls DEF Seed, Enabling
  <2>2. QED
    BY <1>1, <2>1, ListenStill
<1>5. CASE MirrorContext \/ NativeChange \/ UNCHANGED vars
  <2>1. Moves({}, {})
    BY <1>5, NativeFrame, StayMoves DEF MirrorContext, vars, TypeInv, CallsOK
  <2>2. QED
    BY <1>1, <2>1, ListenStill
<1>6. QED
  BY <1>2, <1>3, <1>4, <1>5

\* Nor has the callback.
LEMMA HandleListens ==
  ASSUME TypeInv, ListenInv, NEW k \in DOMAIN inbox, Handle(k)
  PROVE  ListenInv'
<1>1. hook' = hook /\ effects' = effects /\ listeners' = listeners /\ hook \in AllHooks
  BY InstanceTyped DEF Handle, hook, fixed, nativeVars, TypeInv
<1>2. Moves({}, EventCalls(inbox[k]))
  BY HandleCalls
<1>3. \A c \in EventCalls(inbox[k]) : ~Seed(c) /\ c.op # "remove"
  BY <1>1, EventSeeds
<1>4. QED
  BY <1>1, <1>2, <1>3, ListenStill

\* Native adds the listener of a call that may subscribe, and removes one that is known.
LEMMA ExecuteListens ==
  ASSUME TypeInv, ListenInv, NEW c \in BagToSet(calls), Execute(c) \/ Fail(c)
  PROVE  ListenInv'
<1>1. hook' = hook /\ effects' = effects
  BY ExecuteFrame
<1>2. CallOK(c)
  BY FromBag
<1>3. Seed(c) /\ (c.op # "add" \/ c.todo # {}) => c.by \notin listeners
  BY DEF ListenInv, SeedOK
<1>4. ASSUME NEW d, Moves({c}, {d}), c # d, d.op = c.op, d.by = c.by, d.then = c.then, c.op # "remove",
             listeners' = IF c.op = "add" /\ d.ok THEN listeners \cup {c.by} ELSE listeners,
             c.op = "add" => d.todo = {}, c.op \in ReadOps \/ c.todo # {}
      PROVE  ListenInv'
  <2>1. Seed(d) <=> Seed(c)
    BY <1>4 DEF Seed, Enabling
  <2>2. Seed(c) => (c.by \in listeners' => d.op = "add" /\ d.todo = {} /\ d.ok)
    BY <1>3, <1>4 DEF ReadOps
  <2>3. /\ \A g : g # c.by => (g \in listeners' <=> g \in listeners)
        /\ c.by \in listeners' => c.by \in listeners \/ c.op = "add"
    BY <1>4
  <2>4. QED
    BY <1>1, <1>4, <2>1, <2>2, <2>3, HandOver
<1>5. ASSUME NEW part, NEW d, HasRead(c, part, d)
      PROVE  ListenInv'
  <2>1. c.op \in ReadOps /\ c.op # "add" /\ c.op # "remove"
    BY <1>5 DEF HasRead, ReadInPart, ReadOps
  <2>2. QED
    BY <1>4, <1>5, <2>1 DEF HasRead, ReadInPart
<1>6. ASSUME NEW d, HasWritten(c, d)
      PROVE  ListenInv'
  <2>1. d.ok
    BY <1>2, <1>6 DEF HasWritten, CallOK
  <2>2. QED
    BY <1>4, <1>6, <2>1 DEF HasWritten
<1>7. ASSUME NEW d, HasFailed(c, d)
      PROVE  ListenInv'
  BY <1>4, <1>7 DEF HasFailed, Swallowed
<1>8. CASE HasDropped(c)
  <2>1. /\ Moves({c}, {}) /\ c.op # "add" /\ \A g : g # c.by => (g \in listeners' <=> g \in listeners)
        /\ c.op = "remove" => c.by \notin listeners'
        /\ c.by \in listeners' => c.by \in listeners
    BY <1>8 DEF HasDropped, Swallowed
  <2>2. QED
    BY <1>1, <2>1, HandOver
<1>9. QED
  BY <1>5, <1>6, <1>7, <1>8, Executes

\* The id arrives: known from now on, and removed at once by useSyncEvents if it is late.
LEMMA AddListens ==
  ASSUME TypeInv, ListenInv, NEW c \in BagToSet(calls), SettleAdd(c)
  PROVE  ListenInv'
<1>1. /\ Moves({c}, AfterAdd(c))
      /\ \A g \in Run \ {c.by} : effects'[g] = effects[g]
      /\ effects'[c.by].subscribed = c.ok
      /\ effects'[c.by].ended = effects[c.by].ended
      /\ effects'[c.by].late = effects[c.by].late
      /\ \A d \in AfterAdd(c) : d.by = c.by /\ d.op = "remove" /\ d.then = "nothing"
  BY AddSettles, AskedFields
<1>2. hook' = hook /\ listeners' = listeners /\ listeners \subseteq Run
  BY DEF SettleAdd, hook, fixed, nativeVars, TypeInv, StateOK
<1>3. Seed(c) /\ SeedOK(c)
  BY DEF SettleAdd, Seed, ListenInv
<1>4. c \notin BagToSet(calls')
  BY <1>1, <1>3 DEF Moves, SeedOK
<1>5. \A d \in AfterAdd(c) : ~Seed(d)
  BY <1>1 DEF Seed, Enabling
<1>6. ASSUME NEW e \in BagToSet(calls'), e \notin AfterAdd(c)
      PROVE  e \in BagToSet(calls) /\ e # c /\ calls'[e] = calls[e]
  BY <1>1, <1>4, <1>6 DEF Moves
<1>7. \A e \in BagToSet(calls) : e.by \in Run
  BY FromBag
<1>8. ASSUME NEW e \in BagToSet(calls'), Seed(e)
      PROVE  SeedOK(e)' /\ e.by # c.by
  <2>1. e \in BagToSet(calls) /\ e # c /\ calls'[e] = calls[e] /\ SeedOK(e) /\ e.by \in Run
    BY <1>5, <1>6, <1>7, <1>8 DEF ListenInv
  <2>2. e.by # c.by
    BY <1>3, <1>8, <2>1 DEF SeedOK
  <2>3. ASSUME NEW d \in BagToSet(calls'), Seed(d), d.by = e.by
        PROVE  d = e
    BY <1>5, <1>6, <2>1, <2>3 DEF SeedOK
  <2>4. effects'[e.by] = effects[e.by]
    BY <1>1, <2>1, <2>2
  <2>5. QED
    BY <1>2, <2>1, <2>2, <2>3, <2>4, SeedsKept DEF SeedOK
<1>9. ASSUME NEW r \in BagToSet(calls'), r.op = "remove"
      PROVE  RemoveOK(r)'
  <2>1. CASE r \in AfterAdd(c)
    <3>1. r.by = c.by /\ effects[c.by].ended
      BY <1>1, <2>1 DEF AfterAdd, When
    <3>2. QED
      BY <1>1, <1>2, <1>8, <3>1, SeedsKept DEF RemoveOK
  <2>2. CASE r \notin AfterAdd(c)
    <3>1. r \in BagToSet(calls) /\ RemoveOK(r) /\ r.by \in Run
      BY <1>6, <1>7, <1>9, <2>2 DEF ListenInv
    <3>2. \A d \in BagToSet(calls') : Seed(d) => d.by # r.by
      BY <1>5, <1>6, <3>1 DEF RemoveOK
    <3>3. effects'[r.by].ended
      BY <1>1, <3>1 DEF RemoveOK
    <3>4. QED
      BY <1>2, <3>2, <3>3, SeedsKept DEF RemoveOK
  <2>3. QED
    BY <2>1, <2>2
<1>10. ASSUME NEW g \in listeners', g # c.by
       PROVE  /\ ~effects'[g].ended =>
                   effects'[g].subscribed \/ \E x \in BagToSet(calls') : x.op = "add" /\ x.by = g
              /\ effects'[g].ended =>
                   \/ "listener" \in effects'[g].late /\ hook # "useSyncEvents"
                   \/ \E x \in BagToSet(calls') : x.by = g /\ x.op \in {"add", "remove"}
  <2>1. effects'[g] = effects[g] /\ g \in listeners
    BY <1>1, <1>2, <1>10
  <2>2. \A x \in BagToSet(calls) : x.by = g => x \in BagToSet(calls')
    BY <1>1, <1>10 DEF Moves
  <2>3. QED
    BY <2>1, <2>2 DEF ListenInv, LeakOnlyInWindow
<1>11. ASSUME c.by \in listeners'
       PROVE  /\ effects'[c.by].subscribed
              /\ effects'[c.by].ended =>
                   \/ "listener" \in effects'[c.by].late /\ hook # "useSyncEvents"
                   \/ \E x \in BagToSet(calls') : x.by = c.by /\ x.op \in {"add", "remove"}
  <2>1. c.ok
    BY <1>2, <1>3, <1>11 DEF SeedOK
  <2>2. effects'[c.by].ended => "listener" \in effects'[c.by].late
    BY <1>1, <1>3 DEF SeedOK
  <2>3. ASSUME effects'[c.by].ended, hook = "useSyncEvents"
        PROVE  \E x \in BagToSet(calls') : x.by = c.by /\ x.op \in {"add", "remove"}
    <3>1. Ask("remove", c.by) \in AfterAdd(c)
      BY <1>1, <2>1, <2>3 DEF AfterAdd, When
    <3>2. QED
      BY <1>1, <3>1 DEF Moves
  <2>4. QED
    BY <1>1, <2>1, <2>2, <2>3
<1>12. QED
  BY <1>2, <1>8, <1>9, <1>10, <1>11, SeedsKept DEF ListenInv, LeakOnlyInWindow

\* The other continuations hand the right to subscribe on.
LEMMA SettleListens ==
  ASSUME TypeInv, ListenInv, NEW c \in BagToSet(calls), Settle(c)
  PROVE  ListenInv'
<1>1. hook' = hook /\ listeners' = listeners /\ CallOK(c)
  BY SettleFrame, FromBag DEF nativeVars
<1>2. Seed(c) /\ c.op # "add" => c.by \notin listeners
  BY DEF ListenInv, SeedOK
<1>3. ASSUME NEW ask, Moves({c}, ask), effects' = effects, Done(c), c.op \notin {"add", "remove"},
             \A d \in ask : Asked(d, c.by) /\ d.op # "remove" /\ (Seed(d) => Seed(c)),
             \A d, e \in ask : Seed(d) /\ Seed(e) => d = e
      PROVE  ListenInv'
  <2>1. \A d \in ask : d.by = c.by /\ d # c
    BY <1>3, AskedFields DEF Done
  <2>2. QED
    BY <1>1, <1>2, <1>3, <2>1, HandOver
<1>4. CASE SettleRead(c)
  <2>1. /\ Moves({c}, AfterRead(c)) /\ Done(c) /\ c.op \in ReadOps /\ effects' = effects
        /\ \A d \in AfterRead(c) : Asked(d, c.by) /\ d.op # "remove" /\ c.then \in {"add", "enable"}
    BY <1>4, ReadSettles DEF SettleRead
  <2>2. \A d \in AfterRead(c) : Seed(c)
    BY <1>1, <2>1 DEF Seed, Enabling, CallOK, ThenOK
  <2>3. \A d, e \in AfterRead(c) : d = e
    BY DEF AfterRead, When
  <2>4. c.op \notin {"add", "remove"}
    BY <2>1 DEF ReadOps
  <2>5. QED
    BY <1>3, <2>1, <2>2, <2>3, <2>4
<1>5. CASE SettleConfigure(c)
  <2>1. /\ Moves({c}, AfterConfigure(c)) /\ Done(c) /\ c.op = "configure" /\ effects' = effects
        /\ \A d \in AfterConfigure(c) : Asked(d, c.by) /\ d.op = "config" /\ d.then \in {"enable", "nothing"}
    BY <1>5, ConfigureSettles DEF SettleConfigure
  <2>2. \A d \in AfterConfigure(c) : Seed(d) => Seed(c)
    BY <2>1 DEF Seed, Enabling
  <2>3. \A d, e \in AfterConfigure(c) : d = e
    BY DEF AfterConfigure, When
  <2>4. QED
    BY <1>3, <2>1, <2>2, <2>3
<1>6. CASE SettleEnable(c)
  <2>1. /\ Moves({c}, AfterEnable(c)) /\ Done(c) /\ c.op = "enable" /\ effects' = effects
        /\ hook = "SyncProvider"
        /\ \A d \in AfterEnable(c) : Asked(d, c.by) /\ d.op = "add"
    BY <1>6, EnableSettles DEF SettleEnable
  <2>2. Seed(c)
    BY <2>1 DEF Seed, Enabling
  <2>3. \A d, e \in AfterEnable(c) : d = e
    BY DEF AfterEnable, When
  <2>4. QED
    BY <1>3, <2>1, <2>2, <2>3
<1>7. CASE FlushUnlessOffline(c)
  <2>1. /\ Moves({c}, AfterStatus(c)) /\ Done(c) /\ c.op = "connection" /\ effects' = effects
        /\ \A d \in AfterStatus(c) : Asked(d, c.by) /\ d.op = "syncing" /\ d.then = "flush"
    BY <1>7, StatusSettles DEF FlushUnlessOffline
  <2>2. \A d \in AfterStatus(c) : ~Seed(d)
    BY <2>1 DEF Seed, Enabling
  <2>3. QED
    BY <1>3, <2>1, <2>2
<1>8. CASE SafeFlush(c)
  <2>1. /\ Moves({c}, AfterSyncing(c)) /\ Done(c) /\ c.op = "syncing" /\ effects' = effects
        /\ \A d \in AfterSyncing(c) : Asked(d, c.by) /\ d.op = "flush" /\ d.then = "nothing"
    BY <1>8, SyncingSettles DEF SafeFlush
  <2>2. \A d \in AfterSyncing(c) : ~Seed(d)
    BY <2>1 DEF Seed, Enabling
  <2>3. QED
    BY <1>3, <2>1, <2>2
<1>9. QED
  BY <1>4, <1>5, <1>6, <1>7, <1>8, AddListens DEF Settle

\* ListenInv is inductive.
LEMMA StepListens ==
  ASSUME TypeInv, ListenInv, [Next]_vars
  PROVE  ListenInv'
  BY MountListens, UnmountListens, StillListens, HandleListens, ExecuteListens, SettleListens DEF Next

\* ListenInv holds in every reachable state.
LEMMA ListensAlways == Spec => []ListenInv
<1>1. Init => ListenInv
  <2> SUFFICES ASSUME Init PROVE ListenInv
    OBVIOUS
  <2>1. BagToSet(calls) = {} /\ listeners = {}
    BY DEF Init, EmptyBag, SetToBag, BagToSet
  <2>2. QED
    BY <2>1 DEF ListenInv, LeakOnlyInWindow
<1>2. QED
  BY <1>1, TypesAlways, StepListens, PTL DEF Spec

\* A listener outlives its effect only if its id was not known yet at the cleanup, and that
\* of useSyncEvents only until its removal has run (LeakOnlyInWindow): the cleanups of all hooks.
THEOREM ListenersRemoved == Spec => []LeakOnlyInWindow
<1>1. ListenInv => LeakOnlyInWindow
  BY DEF ListenInv
<1>2. QED
  BY <1>1, ListensAlways, PTL

-----------------------------------------------------------------------------
(***************************************************************************)
(* BackgroundOnlyInWindow: who owns background sync.                       *)
(***************************************************************************)
\* Calls that hand over what enables, at most, from call to call.
LEMMA BackgroundKept ==
  ASSUME TypeInv, BackgroundInv, NEW out, NEW in, Moves(out, in), out \subseteq BagToSet(calls),
         hook' = hook, Run' = Run, Current' = Current, Up' = Up,
         ownsBackgroundRef' = ownsBackgroundRef,
         \A g \in Run : effects'[g].ended = effects[g].ended /\ effects'[g].late = effects[g].late,
         world'.background => \/ world.background
                              \/ \E d \in in : d.op = "enable" /\ d.todo = {} /\ d.ok,
         \A c \in out : ~(c.op = "enable" /\ c.todo = {}) /\ (c.op = "disable" => ~world'.background),
         \A d \in in : Enabling(d) => \E c \in out : Enabling(c) /\ d.by = c.by
  PROVE  BackgroundInv'
<1>1. \A c : Enabling(c)' <=> Enabling(c)
  BY DEF Enabling
<1>2. \A c \in BagToSet(calls) : c.by \in Run
  BY FromBag
<1>3. (\A g \in Run : ~effects[g].ended => g = Current)' /\ (Late => Late')
  BY DEF BackgroundInv, Late
<1>4. ASSUME EnabledInTime
      PROVE  EnabledInTime'
  <2>1. ASSUME NEW c \in BagToSet(calls'), Enabling(c)
        PROVE  ~effects'[c.by].ended /\ ~ownsBackgroundRef
    <3>1. PICK e \in BagToSet(calls) : Enabling(e) /\ c.by = e.by
      BY <2>1 DEF Moves
    <3>2. QED
      BY <1>2, <1>4, <3>1 DEF EnabledInTime
  <2>2. ASSUME world'.background
        PROVE  \/ ownsBackgroundRef
               \/ \E c \in BagToSet(calls') : c.op = "enable" /\ c.todo = {} /\ c.ok
               \/ \E c \in BagToSet(calls') : c.op = "disable"
    <3>1. CASE \E d \in in : d.op = "enable" /\ d.todo = {} /\ d.ok
      BY <3>1 DEF Moves
    <3>2. CASE world.background
      <4>1. CASE ownsBackgroundRef
        BY <4>1
      <4>2. CASE \E c \in BagToSet(calls) : c.op = "enable" /\ c.todo = {} /\ c.ok
        BY <4>2 DEF Moves
      <4>3. CASE \E c \in BagToSet(calls) : c.op = "disable"
        BY <2>2, <4>3 DEF Moves
      <4>4. QED
        BY <1>4, <3>2, <4>1, <4>2, <4>3 DEF EnabledInTime
    <3>3. QED
      BY <2>2, <3>1, <3>2
  <2>3. QED
    BY <1>1, <1>4, <2>1, <2>2 DEF EnabledInTime
<1>5. QED
  BY <1>3, <1>4 DEF BackgroundInv

\* A new run is the only live one.
LEMMA MountBackground ==
  ASSUME TypeInv, BackgroundInv, Mount
  PROVE  BackgroundInv'
<1> DEFINE ask == When(available, StartCalls(Current'))
<1>1. /\ Current' = Current + 1 /\ Run' = Run \cup {Current'} /\ Current' \notin Run
      /\ \A g \in Run : effects'[g] = effects[g]
      /\ effects'[Current'] = [ended |-> FALSE, subscribed |-> FALSE, late |-> {}]
      /\ Moves({}, ask) /\ \A c \in ask : c.by = Current'
  BY MountCalls, AskedFields
<1> HIDE DEF ask
<1>2. hook' = hook /\ ownsBackgroundRef' = ownsBackgroundRef /\ world' = world /\ ~Up
  BY DEF Mount, hook, fixed, nativeVars
<1>3. \A c : Enabling(c)' <=> Enabling(c)
  BY <1>2 DEF Enabling
<1>4. \A c \in BagToSet(calls) : c.by \in Run
  BY FromBag
<1>5. ASSUME NEW g \in Run', ~effects'[g].ended
      PROVE  g = Current'
  <2>1. CASE g \in Run
    <3>1. g = Current /\ ~effects[Current].ended
      BY <1>1, <1>5, <2>1 DEF BackgroundInv
    <3>2. Current > 0
      BY <2>1, <3>1, EffectsTyped DEF TypeInv
    <3>3. QED
      BY <1>2, <3>1, <3>2 DEF Up
  <2>2. QED
    BY <1>1, <2>1
<1>6. Late => Late'
  BY <1>1 DEF Late
<1>7. ASSUME EnabledInTime
      PROVE  EnabledInTime'
  <2>1. ~ownsBackgroundRef
    BY <1>2, <1>7 DEF EnabledInTime
  <2>2. ASSUME NEW c \in BagToSet(calls'), Enabling(c)
        PROVE  ~effects'[c.by].ended
    <3>1. CASE c \in ask
      BY <1>1, <3>1
    <3>2. CASE c \in BagToSet(calls)
      BY <1>1, <1>4, <1>7, <2>2, <3>2 DEF EnabledInTime
    <3>3. QED
      BY <1>1, <3>1, <3>2 DEF Moves
  <2>3. BagToSet(calls) \subseteq BagToSet(calls')
    BY <1>1 DEF Moves
  <2>4. QED
    BY <1>2, <1>3, <1>7, <2>1, <2>2, <2>3 DEF EnabledInTime
<1>8. QED
  BY <1>5, <1>6, <1>7 DEF BackgroundInv

\* The cleanup gives background sync back, or is late.
LEMMA UnmountBackground ==
  ASSUME TypeInv, BackgroundInv, Unmount
  PROVE  BackgroundInv'
<1>1. /\ Current' = Current /\ Run' = Run /\ Current \in Run
      /\ \A g \in Run \ {Current} : effects'[g] = effects[g]
      /\ effects'[Current].ended /\ ~effects[Current].ended
      /\ ~ownsBackgroundRef => "background" \in effects'[Current].late
      /\ Moves({}, CleanupCalls)
      /\ \A c \in CleanupCalls : Asked(c, Current) /\ c.op \in {"remove", "disable"}
  BY UnmountCalls DEF When, Unmount, Up
<1>2. hook' = hook /\ ownsBackgroundRef' = FALSE /\ world' = world
  BY DEF Unmount, hook, fixed, nativeVars
<1>3. \A g \in Run' : ~effects'[g].ended => g = Current'
  BY <1>1 DEF BackgroundInv
<1>4. CASE ~ownsBackgroundRef
  BY <1>1, <1>3, <1>4 DEF BackgroundInv, Late
<1>5. CASE ownsBackgroundRef
  <2>1. Late => Late'
    BY <1>1 DEF Late
  <2>2. ASSUME EnabledInTime
        PROVE  EnabledInTime'
    <3>1. \A c \in CleanupCalls : ~Enabling(c)
      BY DEF Enabling, CleanupCalls, When, Ask, NewCall
    <3>2. \A c \in BagToSet(calls') : ~Enabling(c)
      BY <1>1, <1>5, <2>2, <3>1 DEF Moves, EnabledInTime
    <3>3. Ask("disable", Current) \in CleanupCalls /\ Ask("disable", Current).op = "disable"
      BY <1>5 DEF CleanupCalls, When, Ask, NewCall
    <3>4. \E c \in BagToSet(calls') : c.op = "disable"
      BY <1>1, <3>3 DEF Moves
    <3>5. \A c : Enabling(c)' <=> Enabling(c)
      BY <1>2 DEF Enabling
    <3>6. QED
      BY <1>2, <3>2, <3>4, <3>5 DEF EnabledInTime
  <2>3. QED
    BY <1>3, <2>1, <2>2 DEF BackgroundInv
<1>6. QED
  BY <1>4, <1>5

\* The component and native changes do not touch background sync.
LEMMA StillBackground ==
  ASSUME TypeInv, BackgroundInv,
         Refresh \/ SetConfig \/ Tick \/ MirrorContext \/ NativeChange \/ UNCHANGED vars
  PROVE  BackgroundInv'
<1>1. /\ hook' = hook /\ effects' = effects /\ ownsBackgroundRef' = ownsBackgroundRef
      /\ Run' = Run /\ Current' = Current /\ Up' = Up
  BY NativeFrame DEF Refresh, SetConfig, Tick, MirrorContext, vars, hook, fixed, refVars, Run, Current, Up
<1>2. world'.background = world.background
  <2>1. CASE NativeChange
    <3>1. CASE CycleCloses \/ CycleEndsSilently
      BY <3>1, ClosedWorld, SilentWorld
    <3>2. CASE NativeChange /\ ~CycleCloses /\ ~CycleEndsSilently
      BY <3>2 DEF NativeChange, ConnectionChanges, QueueChanges, CycleStarts, CycleReturns, ClearHistory,
                  PauseChanges, Reconfigured, TypeInv, StateOK, World
    <3>3. QED
      BY <2>1, <3>1, <3>2
  <2>2. CASE ~NativeChange
    BY <2>2 DEF Refresh, SetConfig, Tick, MirrorContext, vars, nativeVars
  <2>3. QED
    BY <2>1, <2>2
<1>3. \E in : Moves({}, in) /\ \A d \in in : ~Enabling(d)
  <2>1. CASE Refresh
    <3>1. Moves({}, {RefreshCall}) /\ ~Enabling(RefreshCall)
      BY <2>1, RefreshCalls DEF Enabling
    <3>2. QED
      BY <3>1
  <2>2. CASE SetConfig
    <3>1. Moves({}, {ConfigureCall}) /\ ~Enabling(ConfigureCall)
      BY <2>2, SetConfigCalls DEF Enabling, SetConfig
    <3>2. QED
      BY <3>1
  <2>3. CASE Tick
    <3>1. Moves({}, {TickCall}) /\ ~Enabling(TickCall)
      BY <2>3, TickCalls DEF Enabling
    <3>2. QED
      BY <3>1
  <2>4. CASE MirrorContext \/ NativeChange \/ UNCHANGED vars
    <3>1. Moves({}, {})
      BY <2>4, NativeFrame, StayMoves DEF MirrorContext, vars, TypeInv, CallsOK
    <3>2. QED
      BY <3>1
  <2>5. QED
    BY <2>1, <2>2, <2>3, <2>4
<1>4. QED
  BY <1>1, <1>2, <1>3, BackgroundKept

\* Nor does the callback.
LEMMA HandleBackground ==
  ASSUME TypeInv, BackgroundInv, NEW k \in DOMAIN inbox, Handle(k)
  PROVE  BackgroundInv'
<1>1. /\ hook' = hook /\ effects' = effects /\ ownsBackgroundRef' = ownsBackgroundRef /\ world' = world
      /\ Run' = Run /\ Current' = Current /\ Up' = Up /\ hook \in AllHooks
  BY InstanceTyped DEF Handle, hook, fixed, nativeVars, TypeInv, Run, Current, Up
<1>2. Moves({}, EventCalls(inbox[k]))
  BY HandleCalls
<1>3. \A c \in EventCalls(inbox[k]) : ~Enabling(c)
  BY <1>1, EventSeeds DEF Seed
<1>4. QED
  BY <1>1, <1>2, <1>3, BackgroundKept

\* Native enables and disables for the calls that are under way.
LEMMA ExecuteBackground ==
  ASSUME TypeInv, BackgroundInv, NEW c \in BagToSet(calls), Execute(c) \/ Fail(c)
  PROVE  BackgroundInv'
<1>1. /\ hook' = hook /\ effects' = effects /\ ownsBackgroundRef' = ownsBackgroundRef
      /\ Run' = Run /\ Current' = Current /\ Up' = Up
  BY ExecuteFrame DEF refVars
<1>2. CallOK(c) /\ world \in World
  BY FromBag DEF TypeInv, StateOK
<1>3. ASSUME NEW d, Moves({c}, {d}), d.op = c.op, d.by = c.by, d.then = c.then,
             ~(c.op = "enable" /\ c.todo = {}), c.op # "disable",
             world'.background => world.background \/ (d.op = "enable" /\ d.todo = {} /\ d.ok)
      PROVE  BackgroundInv'
  <2>1. Enabling(d) => Enabling(c)
    BY <1>3 DEF Enabling
  <2>2. QED
    BY <1>1, <1>3, <2>1, BackgroundKept
<1>4. ASSUME NEW part, NEW d, HasRead(c, part, d)
      PROVE  BackgroundInv'
  <2>1. c.op \in ReadOps /\ c.op # "disable" /\ c.op # "enable" /\ world' = world
    BY <1>4 DEF HasRead, ReadInPart, ReadOps
  <2>2. QED
    BY <1>3, <1>4, <2>1 DEF HasRead, ReadInPart
<1>5. ASSUME NEW d, HasWritten(c, d)
      PROVE  BackgroundInv'
  <2>1. d.ok
    BY <1>2, <1>5 DEF HasWritten, CallOK
  <2>2. world'.background => world.background \/ c.op = "enable"
    BY <1>2, <1>5 DEF HasWritten, World
  <2>3. QED
    BY <1>3, <1>5, <2>1, <2>2 DEF HasWritten
<1>6. ASSUME NEW d, HasFailed(c, d)
      PROVE  BackgroundInv'
  BY <1>3, <1>6 DEF HasFailed, Swallowed
<1>7. CASE HasDropped(c)
  <2>1. Moves({c}, {}) /\ c.op # "enable"
    BY <1>7 DEF HasDropped, Swallowed
  <2>2. (world'.background => world.background) /\ (c.op = "disable" => ~world'.background)
    BY <1>2, <1>7 DEF HasDropped, World
  <2>3. QED
    BY <1>1, <2>1, <2>2, BackgroundKept
<1>8. QED
  BY <1>4, <1>5, <1>6, <1>7, Executes

\* The provider learns that it owns background sync.
LEMMA EnableBackground ==
  ASSUME TypeInv, ListenInv, BackgroundInv, NEW c \in BagToSet(calls), SettleEnable(c)
  PROVE  BackgroundInv'
<1>1. /\ hook' = hook /\ effects' = effects /\ world' = world
      /\ Run' = Run /\ Current' = Current /\ Up' = Up
      /\ ownsBackgroundRef' = (ownsBackgroundRef \/ c.ok)
  BY DEF SettleEnable, hook, fixed, nativeVars, Run, Current, Up
<1>2. /\ Moves({c}, AfterEnable(c)) /\ c.op = "enable" /\ hook = "SyncProvider"
      /\ \A d \in AfterEnable(c) : d.op = "add" /\ d.then = "nothing"
  BY EnableSettles DEF SettleEnable
<1>3. Enabling(c) /\ SeedOK(c) /\ c.by \in Run
  BY <1>2, FromBag DEF Enabling, Seed, ListenInv
<1>4. c \notin BagToSet(calls') /\ \A d \in AfterEnable(c) : ~Enabling(d)
  BY <1>2, <1>3 DEF Moves, SeedOK, Enabling
<1>5. \A d : Enabling(d)' <=> Enabling(d)
  BY <1>1 DEF Enabling
<1>6. (\A g \in Run : ~effects[g].ended => g = Current)' /\ (Late => Late')
  BY <1>1 DEF BackgroundInv, Late
<1>7. ASSUME EnabledInTime
      PROVE  EnabledInTime'
  <2>1. ~effects[c.by].ended /\ c.by = Current /\ ~ownsBackgroundRef
    BY <1>3, <1>7 DEF EnabledInTime, BackgroundInv
  <2>2. Up
    BY <1>3, <2>1, EffectsTyped DEF Up, TypeInv
  <2>3. ASSUME NEW d \in BagToSet(calls'), Enabling(d)
        PROVE  FALSE
    <3>1. d \in BagToSet(calls) /\ d # c
      BY <1>2, <1>4, <2>3 DEF Moves
    <3>2. d.by = Current
      BY <1>7, <2>3, <3>1, FromBag DEF EnabledInTime, BackgroundInv
    <3>3. QED
      BY <1>3, <2>1, <2>3, <3>1, <3>2 DEF SeedOK, Seed
  <2>4. ASSUME world'.background, ~c.ok
        PROVE  \/ \E d \in BagToSet(calls') : d.op = "enable" /\ d.todo = {} /\ d.ok
               \/ \E d \in BagToSet(calls') : d.op = "disable"
    <3>1. PICK d \in BagToSet(calls) : (d.op = "enable" /\ d.todo = {} /\ d.ok) \/ d.op = "disable"
      BY <1>1, <1>7, <2>1, <2>4 DEF EnabledInTime
    <3>2. d # c
      BY <1>2, <2>4, <3>1
    <3>3. QED
      BY <1>2, <3>1, <3>2 DEF Moves
  <2>5. QED
    BY <1>1, <1>5, <2>2, <2>3, <2>4 DEF EnabledInTime
<1>8. QED
  BY <1>6, <1>7 DEF BackgroundInv

\* The other continuations hand the right to enable on.
LEMMA SettleBackground ==
  ASSUME TypeInv, ListenInv, BackgroundInv, NEW c \in BagToSet(calls), Settle(c)
  PROVE  BackgroundInv'
<1>1. /\ hook' = hook /\ world' = world /\ Run' = Run /\ Current' = Current /\ Up' = Up /\ CallOK(c)
      /\ \A g \in Run : effects'[g].ended = effects[g].ended /\ effects'[g].late = effects[g].late
  BY SettleFrame, UpSettles, FromBag DEF nativeVars
<1>2. ASSUME NEW ask, Moves({c}, ask), ownsBackgroundRef' = ownsBackgroundRef, c.op \notin {"enable", "disable"},
             \A d \in ask : Asked(d, c.by) /\ (Enabling(d) => Enabling(c))
      PROVE  BackgroundInv'
  <2>1. \A d \in ask : d.by = c.by
    BY <1>2, AskedFields
  <2>2. QED
    BY <1>1, <1>2, <2>1, BackgroundKept
<1>3. CASE SettleRead(c)
  <2>1. /\ Moves({c}, AfterRead(c)) /\ c.op \in ReadOps /\ ownsBackgroundRef' = ownsBackgroundRef
        /\ \A d \in AfterRead(c) : /\ Asked(d, c.by) /\ d.then = "nothing" /\ d.op \in {"add", "enable"}
                                   /\ d.op = "enable" => c.then = "enable"
    BY <1>3, ReadSettles DEF SettleRead, refVars
  <2>2. \A d \in AfterRead(c) : Enabling(d) => Enabling(c)
    BY <2>1 DEF Enabling
  <2>3. c.op \notin {"enable", "disable"}
    BY <2>1 DEF ReadOps
  <2>4. QED
    BY <1>2, <2>1, <2>2, <2>3
<1>4. CASE SettleConfigure(c)
  <2>1. /\ Moves({c}, AfterConfigure(c)) /\ c.op = "configure" /\ ownsBackgroundRef' = ownsBackgroundRef
        /\ \A d \in AfterConfigure(c) : Asked(d, c.by)
    BY <1>4, ConfigureSettles DEF SettleConfigure, refVars
  <2>2. \A d \in AfterConfigure(c) : Enabling(d) => Enabling(c)
    BY <2>1 DEF Enabling
  <2>3. QED
    BY <1>2, <2>1, <2>2
<1>5. CASE SettleAdd(c)
  <2>1. /\ Moves({c}, AfterAdd(c)) /\ c.op = "add" /\ ownsBackgroundRef' = ownsBackgroundRef
        /\ \A d \in AfterAdd(c) : Asked(d, c.by) /\ d.op = "remove" /\ d.then = "nothing"
    BY <1>5, AddSettles DEF SettleAdd, refVars
  <2>2. \A d \in AfterAdd(c) : ~Enabling(d)
    BY <2>1 DEF Enabling
  <2>3. QED
    BY <1>2, <2>1, <2>2
<1>6. CASE FlushUnlessOffline(c)
  <2>1. /\ Moves({c}, AfterStatus(c)) /\ c.op = "connection" /\ ownsBackgroundRef' = ownsBackgroundRef
        /\ hook = "useAutoSync" /\ \A d \in AfterStatus(c) : Asked(d, c.by)
    BY <1>6, StatusSettles DEF FlushUnlessOffline, refVars
  <2>2. QED
    BY <1>2, <2>1 DEF Enabling
<1>7. CASE SafeFlush(c)
  <2>1. /\ Moves({c}, AfterSyncing(c)) /\ c.op = "syncing" /\ ownsBackgroundRef' = ownsBackgroundRef
        /\ hook = "useAutoSync" /\ \A d \in AfterSyncing(c) : Asked(d, c.by)
    BY <1>7, SyncingSettles DEF SafeFlush, refVars
  <2>2. QED
    BY <1>2, <2>1 DEF Enabling
<1>8. QED
  BY <1>3, <1>4, <1>5, <1>6, <1>7, EnableBackground DEF Settle

\* BackgroundInv is inductive.
LEMMA StepBackground ==
  ASSUME TypeInv, ListenInv, BackgroundInv, [Next]_vars
  PROVE  BackgroundInv'
  BY MountBackground, UnmountBackground, StillBackground, HandleBackground, ExecuteBackground, SettleBackground
     DEF Next

\* BackgroundInv holds in every reachable state.
LEMMA BackgroundAlways == Spec => []BackgroundInv
<1>1. Init => BackgroundInv
  <2> SUFFICES ASSUME Init PROVE BackgroundInv
    OBVIOUS
  <2>1. BagToSet(calls) = {} /\ Run = {}
    BY DEF Init, EmptyBag, SetToBag, BagToSet, Run
  <2>2. ~ownsBackgroundRef /\ ~world.background
    <3>1. world.background \in {FALSE}
      BY DEF Init
    <3>2. QED
      BY <3>1 DEF Init
  <2>3. QED
    BY <2>1, <2>2 DEF BackgroundInv, EnabledInTime
<1>2. QED
  BY <1>1, TypesAlways, ListensAlways, StepBackground, PTL DEF Spec

\* Once SyncProvider is gone and all is quiet, background sync is on only if a cleanup ran
\* before the provider knew that it owns it (BackgroundOnlyInWindow): ownsBackgroundRef.
THEOREM BackgroundReturned == Spec => []BackgroundOnlyInWindow
<1>1. BackgroundInv => BackgroundOnlyInWindow
  <2> SUFFICES ASSUME BackgroundInv, AtRest, ~Up, world.background
               PROVE  \E g \in Run : "background" \in effects[g].late
    BY DEF BackgroundOnlyInWindow
  <2>1. BagToSet(calls) = {}
    BY DEF AtRest, EmptyBag, SetToBag, BagToSet
  <2>2. QED
    BY <2>1 DEF BackgroundInv, EnabledInTime, Late
<1>2. QED
  BY <1>1, BackgroundAlways, PTL

-----------------------------------------------------------------------------
(***************************************************************************)
(* MirrorsAtRest: what a step does to the view, the answers and the inbox. *)
(***************************************************************************)
\* A refresh changes isLoading only.
LEMMA ViewFields ==
  ASSUME StateOK, NEW ask, NEW v, v = [view EXCEPT !.loading = @ \/ Loading(ask)]
  PROVE  \A f \in Shows \ {"loading"} : v[f] = view[f]
  BY ViewTyped DEF StateOK, Shows

\* A read leaves the other fields alone.
LEMMA OtherFields ==
  ASSUME StateOK, NEW c, CallOK(c), Done(c), c.op \in ReadOps, NEW f \in Shows \ {"loading"}, f \notin Parts(c.op)
  PROVE  ViewAfter(c)[f] = view[f]
<1>1. view \in View /\ hook \in AllHooks /\ DOMAIN view = Shows
  BY InstanceTyped, ViewTyped DEF StateOK
<1>2. c.ok => Showing(c.got) \in View /\ Showing(c.got)[f] = view[f]
  BY <1>1, Brought, ShowingTyped, ShowingFields
<1>3. CASE hook = "useConnection"
  <2>1. f # "connection"
    BY <1>3 DEF CallOK, OpsOf, ReadOps, Parts
  <2>2. QED
    BY <1>1, <1>3, <2>1 DEF ViewAfter, UseConnectionSettle
<1>4. CASE hook = "useSyncStatus"
  <2>1. f # "last"
    BY <1>4 DEF CallOK, OpsOf, ReadOps, Parts
  <2>2. QED
    BY <1>1, <1>4, <2>1 DEF ViewAfter, UseSyncStatusSettle
<1>5. CASE hook = "useSyncQueue"
  BY <1>1, <1>2, <1>5, ViewTyped DEF ViewAfter, UseSyncQueueSettle
<1>6. CASE hook = "useOfflineQueue"
  BY <1>1, <1>2, <1>6 DEF ViewAfter, UseOfflineQueueSettle
<1>7. CASE hook = "useSyncSnapshot"
  BY <1>1, <1>2, <1>7 DEF ViewAfter, UseSyncSnapshotSettle
<1>8. CASE hook = "useSyncConfig"
  BY <1>1, <1>2, <1>8, ViewTyped DEF ViewAfter, UseSyncConfigSettle
<1>9. CASE hook = "SyncProvider"
  BY <1>1, <1>2, <1>9 DEF ViewAfter, SyncProviderSettle
<1>10. CASE hook \in {"useSyncEvents", "useAutoSync"}
  BY <1>1, <1>10 DEF ViewAfter
<1>11. QED
  BY <1>1, <1>3, <1>4, <1>5, <1>6, <1>7, <1>8, <1>9, <1>10 DEF AllHooks

\* A read that answered is shown, but for a result that is not there yet.
LEMMA ReadShown ==
  ASSUME StateOK, NEW c, CallOK(c), Done(c), c.op \in ReadOps, c.ok,
         NEW f \in Parts(c.op) \cap Mirrored
  PROVE  \/ ViewAfter(c)[f] = c.got[f]
         \/ f = "last" /\ c.got[f] = 0 /\ ViewAfter(c)[f] = view[f]
<1>1. view \in View /\ hook \in AllHooks /\ DOMAIN view = Shows /\ f \in Shows /\ f # "loading"
  BY InstanceTyped, ViewTyped DEF StateOK, Mirrored, Shows
<1>2. Showing(c.got) \in View /\ Showing(c.got)[f] = c.got[f]
  BY <1>1, Brought, ShowingTyped, ShowingFields
<1>3. CASE hook = "useConnection"
  <2>1. f = "connection"
    BY <1>3 DEF Mirrored
  <2>2. QED
    BY <1>1, <1>3, <2>1 DEF ViewAfter, UseConnectionSettle, View
<1>4. CASE hook = "useSyncStatus"
  <2>1. f = "last"
    BY <1>4 DEF CallOK, OpsOf, ReadOps, Parts
  <2>2. QED
    BY <1>1, <1>4, <2>1 DEF ViewAfter, UseSyncStatusSettle, View
<1>5. CASE hook = "useSyncQueue"
  BY <1>1, <1>2, <1>5, ViewTyped DEF ViewAfter, UseSyncQueueSettle
<1>6. CASE hook = "useOfflineQueue"
  BY <1>1, <1>2, <1>6 DEF ViewAfter, UseOfflineQueueSettle
<1>7. CASE hook = "useSyncSnapshot"
  <2>1. CASE c.op = "last"
    <3>1. f = "last"
      BY <2>1 DEF Parts
    <3>2. QED
      BY <1>1, <1>2, <1>7, <2>1, <3>1 DEF ViewAfter, UseSyncSnapshotSettle
  <2>2. CASE c.op # "last"
    BY <1>1, <1>2, <1>7, <2>2 DEF ViewAfter, UseSyncSnapshotSettle
  <2>3. QED
    BY <2>1, <2>2
<1>8. CASE hook = "useSyncConfig"
  BY <1>1, <1>2, <1>8, ViewTyped DEF ViewAfter, UseSyncConfigSettle
<1>9. CASE hook = "SyncProvider"
  BY <1>1, <1>2, <1>9 DEF ViewAfter, SyncProviderSettle
<1>10. CASE hook \in {"useSyncEvents", "useAutoSync"}
  BY <1>10 DEF Mirrored
<1>11. QED
  BY <1>1, <1>3, <1>4, <1>5, <1>6, <1>7, <1>8, <1>9, <1>10 DEF AllHooks

\* A call that failed changes nothing but the connection.
LEMMA NothingShown ==
  ASSUME StateOK, NEW c, CallOK(c), Done(c), c.op \in ReadOps, ~c.ok, NEW f \in Shows \ {"loading", "connection"}
  PROVE  ViewAfter(c)[f] = view[f]
<1>1. view \in View /\ hook \in AllHooks /\ DOMAIN view = Shows
  BY InstanceTyped, ViewTyped DEF StateOK
<1>2. QED
  BY <1>1 DEF ViewAfter, UseConnectionSettle, UseSyncStatusSettle, UseSyncQueueSettle, UseOfflineQueueSettle,
     UseSyncSnapshotSettle, UseSyncConfigSettle, SyncProviderSettle, AllHooks

\* A continuation changes only the fields its call has read.
LEMMA SettleView ==
  ASSUME TypeInv, NEW c \in BagToSet(calls), Settle(c), NEW f \in Shows \ {"loading"}
  PROVE  \/ view'[f] = view[f]
         \/ SettleRead(c) /\ ~Cancelled(c.by) /\ f \in Parts(c.op) /\ view'[f] = ViewAfter(c)[f]
<1>1. CallOK(c) /\ StateOK
  BY FromBag DEF TypeInv
<1>2. CASE SettleRead(c)
  <2>1. Done(c) /\ c.op \in ReadOps /\ view' = IF Cancelled(c.by) THEN view ELSE ViewAfter(c)
    BY <1>2 DEF SettleRead
  <2>2. QED
    BY <1>1, <1>2, <2>1, OtherFields
<1>3. CASE SettleConfigure(c)
  <2>1. view' = [view EXCEPT !.loading = @ \/ Loading(AfterConfigure(c))]
    BY <1>3 DEF SettleConfigure, AfterConfigure
  <2>2. QED
    BY <1>1, <2>1, ViewFields
<1>4. CASE SettleEnable(c) \/ SettleAdd(c) \/ FlushUnlessOffline(c) \/ SafeFlush(c)
  BY <1>4 DEF SettleEnable, SettleAdd, FlushUnlessOffline, SafeFlush
<1>5. QED
  BY <1>2, <1>3, <1>4 DEF Settle

\* The component's own steps change isLoading only.
LEMMA ComponentView ==
  ASSUME TypeInv, Mount \/ Unmount \/ Refresh \/ SetConfig \/ Tick \/ MirrorContext
  PROVE  /\ \A f \in Shows \ {"loading"} : view'[f] = view[f]
         /\ hook' = hook /\ inbox' = inbox /\ world' = world /\ stale' = stale /\ option' = option
         /\ available' = available
<1>1. view' = view \/ \E ask : Ran(ask)
  BY DEF Mount, Unmount, Refresh, SetConfig, Tick, MirrorContext
<1>2. \A f \in Shows \ {"loading"} : view'[f] = view[f]
  BY <1>1, ViewFields DEF Ran, TypeInv
<1>3. QED
  BY <1>2 DEF Mount, Unmount, Refresh, SetConfig, Tick, MirrorContext, hook, fixed, nativeVars, history

\* What is under way afterwards has an answer that was there before, or that was read just now.
LEMMA Answers ==
  ASSUME TypeInv, [Next]_vars, NEW d \in BagToSet(calls'), NEW f \in DOMAIN d.got
  PROVE  \/ \E c \in BagToSet(calls) : f \in DOMAIN c.got /\ c.got[f] = d.got[f]
         \/ d.got[f] = world[f] /\ \E c \in BagToSet(calls) : HasRead(c, f, d)
<1>1. ASSUME NEW out, NEW in, Moves(out, in), \A e \in in : DOMAIN e.got = {}
      PROVE  d \in BagToSet(calls)
  BY <1>1 DEF Moves
<1>2. ASSUME NEW g, NEW out, NEW in, Moves(out, in), \A e \in in : Asked(e, g)
      PROVE  d \in BagToSet(calls)
  BY <1>1, <1>2, AskedFields
<1>3. CASE Mount \/ Unmount \/ Refresh \/ SetConfig \/ Tick
  <2>1. d \in BagToSet(calls)
    <3>1. CASE Mount
      BY <1>2, <3>1, MountCalls
    <3>2. CASE Unmount
      <4>1. Moves({}, CleanupCalls) /\ \A e \in CleanupCalls : Asked(e, Current)
        BY <3>2, UnmountCalls
      <4>2. QED
        BY <1>2, <4>1
    <3>3. CASE Refresh
      BY <1>2, <3>3, RefreshCalls
    <3>4. CASE SetConfig
      BY <1>2, <3>4, SetConfigCalls
    <3>5. CASE Tick
      BY <1>2, <3>5, TickCalls
    <3>6. QED
      BY <1>3, <3>1, <3>2, <3>3, <3>4, <3>5
  <2>2. QED
    BY <2>1
<1>4. CASE MirrorContext \/ NativeChange \/ UNCHANGED vars
  BY <1>4, NativeFrame DEF MirrorContext, vars
<1>5. ASSUME NEW c \in BagToSet(calls), Execute(c) \/ Fail(c)
      PROVE  \/ \E e \in BagToSet(calls) : f \in DOMAIN e.got /\ e.got[f] = d.got[f]
             \/ d.got[f] = world[f] /\ \E e \in BagToSet(calls) : HasRead(e, f, d)
  <2>1. CASE d \in BagToSet(calls)
    BY <2>1
  <2>2. CASE d \notin BagToSet(calls)
    <3>1. ASSUME NEW part, NEW e, HasRead(c, part, e)
          PROVE  \/ \E x \in BagToSet(calls) : f \in DOMAIN x.got /\ x.got[f] = d.got[f]
                 \/ d.got[f] = world[f] /\ \E x \in BagToSet(calls) : HasRead(x, f, d)
      <4>1. d = e
        BY <2>2, <3>1 DEF HasRead, ReadInPart, Moves
      <4>2. CASE f = part
        BY <3>1, <4>1, <4>2 DEF HasRead, ReadInPart
      <4>3. CASE f # part
        BY <3>1, <4>1, <4>3 DEF HasRead, ReadInPart
      <4>4. QED
        BY <4>2, <4>3
    <3>2. ASSUME NEW e, HasWritten(c, e) \/ HasFailed(c, e)
          PROVE  \E x \in BagToSet(calls) : f \in DOMAIN x.got /\ x.got[f] = d.got[f]
      <4>1. d = e
        BY <2>2, <3>2 DEF HasWritten, HasFailed, Moves
      <4>2. QED
        BY <3>2, <4>1 DEF HasWritten, HasFailed
    <3>3. CASE HasDropped(c)
      BY <2>2, <3>3 DEF HasDropped, Moves
    <3>4. QED
      BY <1>5, <3>1, <3>2, <3>3, Executes
  <2>3. QED
    BY <2>1, <2>2
<1>6. ASSUME NEW c \in BagToSet(calls), Settle(c)
      PROVE  d \in BagToSet(calls)
  <2>1. CASE SettleRead(c)
    BY <1>2, <2>1, ReadSettles
  <2>2. CASE SettleConfigure(c)
    BY <1>2, <2>2, ConfigureSettles
  <2>3. CASE SettleEnable(c)
    BY <1>2, <2>3, EnableSettles
  <2>4. CASE SettleAdd(c)
    BY <1>2, <2>4, AddSettles
  <2>5. CASE FlushUnlessOffline(c)
    BY <1>2, <2>5, StatusSettles
  <2>6. CASE SafeFlush(c)
    BY <1>2, <2>6, SyncingSettles
  <2>7. QED
    BY <1>6, <2>1, <2>2, <2>3, <2>4, <2>5, <2>6 DEF Settle
<1>7. ASSUME NEW k \in DOMAIN inbox, Handle(k)
      PROVE  d \in BagToSet(calls)
  BY <1>2, <1>7, HandleCalls
<1>8. QED
  BY <1>3, <1>4, <1>5, <1>6, <1>7 DEF Next

\* Where an event is once the event at k was handled.
At(k, j) == IF j < k THEN j ELSE j - 1

\* The other events keep their order.
LEMMA HandledOrder ==
  ASSUME NEW k \in DOMAIN inbox, Handled(k)
  PROVE  /\ \A j \in DOMAIN inbox \ {k} : At(k, j) \in DOMAIN inbox' /\ inbox'[At(k, j)] = inbox[j]
         /\ \A i, j \in DOMAIN inbox \ {k} : i < j => At(k, i) < At(k, j)
         /\ \A i \in DOMAIN inbox' : \E j \in DOMAIN inbox \ {k} : i = At(k, j)
<1>1. Len(inbox) \in Nat /\ k \in 1..Len(inbox) /\ DOMAIN inbox = 1..Len(inbox)
  BY DEF Handled
<1>2. ASSUME NEW j \in DOMAIN inbox \ {k}
      PROVE  At(k, j) \in DOMAIN inbox' /\ inbox'[At(k, j)] = inbox[j]
  <2>1. CASE j < k
    <3>1. At(k, j) = j /\ j \in 1..(Len(inbox) - 1)
      BY <1>1, <2>1 DEF At
    <3>2. QED
      BY <2>1, <3>1 DEF Handled
  <2>2. CASE j > k
    <3>1. At(k, j) = j - 1 /\ j - 1 \in 1..(Len(inbox) - 1) /\ ~(j - 1 < k) /\ (j - 1) + 1 = j
      BY <1>1, <2>2 DEF At
    <3>2. QED
      BY <3>1 DEF Handled
  <2>3. QED
    BY <1>1, <2>1, <2>2
<1>3. ASSUME NEW i \in DOMAIN inbox \ {k}, NEW j \in DOMAIN inbox \ {k}, i < j
      PROVE  At(k, i) < At(k, j)
  BY <1>1, <1>3 DEF At
<1>4. ASSUME NEW i \in DOMAIN inbox'
      PROVE  \E j \in DOMAIN inbox \ {k} : i = At(k, j)
  <2>1. i \in 1..(Len(inbox) - 1)
    BY DEF Handled
  <2>2. CASE i < k
    <3>1. i \in DOMAIN inbox \ {k} /\ i = At(k, i)
      BY <1>1, <2>1, <2>2 DEF At
    <3>2. QED
      BY <3>1
  <2>3. CASE i >= k
    <3>1. i + 1 \in DOMAIN inbox \ {k} /\ i = At(k, i + 1)
      BY <1>1, <2>1, <2>3 DEF At
    <3>2. QED
      BY <3>1
  <2>4. QED
    BY <1>1, <2>1, <2>2, <2>3
<1>5. QED
  BY <1>2, <1>3, <1>4

\* The events of other kinds are still there.
LEMMA StillPending ==
  ASSUME NEW k \in DOMAIN inbox, Handled(k), NEW types, Pending(types), inbox[k].type \notin types
  PROVE  Pending(types)'
<1>1. PICK j \in DOMAIN inbox : inbox[j].type \in types
  BY DEF Pending
<1>2. At(k, j) \in DOMAIN inbox' /\ inbox'[At(k, j)] = inbox[j]
  BY <1>1, HandledOrder
<1>3. QED
  BY <1>1, <1>2 DEF Pending

\* The places in the inbox after an event was emitted.
LEMMA EmittedDomain ==
  ASSUME NEW type, NEW status, Emitted(type, status)
  PROVE  /\ Len(inbox) \in Nat /\ Len(inbox') \in Nat /\ Len(inbox) <= Len(inbox')
         /\ \A j \in DOMAIN inbox : j \in DOMAIN inbox' /\ ~(j > Len(inbox))
         /\ Len(inbox) < Len(inbox') => Len(inbox') \in DOMAIN inbox' /\ Len(inbox') \in 1..Len(inbox')
<1>1. /\ Len(inbox) \in Nat /\ Len(inbox') \in Nat /\ Len(inbox) <= Len(inbox')
      /\ DOMAIN inbox = 1..Len(inbox) /\ DOMAIN inbox' = 1..Len(inbox')
  BY DEF Emitted
<1>2. \A n, m \in Nat : n <= m =>
        /\ \A j \in 1..n : j \in 1..m /\ ~(j > n)
        /\ n < m => m \in 1..m
  OBVIOUS
<1>3. QED
  BY <1>1, <1>2

\* No event gets lost when another is emitted.
LEMMA PendingKept ==
  ASSUME NEW type, NEW status, Emitted(type, status), NEW types
  PROVE  /\ Pending(types) => Pending(types)'
         /\ listeners # {} /\ type \in types => Pending(types)'
<1>1. Pending(types) => Pending(types)'
  <2>1. \A j \in DOMAIN inbox : j \in DOMAIN inbox' /\ inbox'[j] = inbox[j]
    BY EmittedDomain DEF Emitted
  <2>2. QED
    BY <2>1 DEF Pending
<1>2. ASSUME listeners # {}, type \in types
      PROVE  Pending(types)'
  <2>1. Len(inbox') \in DOMAIN inbox' /\ Len(inbox') > Len(inbox) /\ Len(inbox') \in 1..Len(inbox')
    <3>1. Len(inbox) < Len(inbox')
      BY <1>2 DEF Emitted
    <3>2. QED
      BY <3>1, EmittedDomain
  <2>2. inbox'[Len(inbox')].type = type
    BY <2>1 DEF Emitted
  <2>3. QED
    BY <1>2, <2>1, <2>2 DEF Pending
<1>3. QED
  BY <1>1, <1>2

\* What was shown wrong, and is not read, stays so.
LEMMA StaleStays ==
  ASSUME TypeInv, [Next]_vars, ~NativeChange, NEW f \in {"syncing", "paused"}, f \notin stale'
  PROVE  f \notin stale
<1>1. CASE Mount \/ Unmount \/ Refresh \/ SetConfig \/ Tick \/ MirrorContext
  BY <1>1, ComponentView
<1>2. ASSUME NEW c \in BagToSet(calls), Execute(c) \/ Fail(c)
      PROVE  f \notin stale
  <2>1. ASSUME NEW part, NEW d, HasRead(c, part, d)
        PROVE  f \notin stale
    <3>1. part # "paused"
      BY <2>1 DEF HasRead, ReadInPart, ReadOps, Parts
    <3>2. QED
      BY <2>1, <3>1 DEF HasRead
  <2>2. QED
    BY <1>2, <2>1, Executes DEF HasWritten, HasFailed, HasDropped
<1>3. ASSUME NEW c \in BagToSet(calls), Settle(c)
      PROVE  f \notin stale
  BY <1>3, SettleFrame
<1>4. ASSUME NEW k \in DOMAIN inbox, Handle(k)
      PROVE  f \notin stale
  BY <1>4 DEF Handle, history
<1>5. CASE UNCHANGED vars
  BY <1>5 DEF vars, history
<1>6. QED
  BY <1>1, <1>2, <1>3, <1>4, <1>5 DEF Next

\* Of the fields no hook reads with a call native writes, none changes without an event.
LEMMA WorldFrame ==
  ASSUME TypeInv, [Next]_vars, ~NativeChange,
         NEW f \in {"connection", "size", "items", "last", "syncing", "closing", "paused"}
  PROVE  world'[f] = world[f]
<1>1. CASE Mount \/ Unmount \/ Refresh \/ SetConfig \/ Tick \/ MirrorContext
  BY <1>1, ComponentView
<1>2. ASSUME NEW c \in BagToSet(calls), Execute(c) \/ Fail(c)
      PROVE  world'[f] = world[f]
  <2>1. \/ world' = world
        \/ world' = [world EXCEPT !.config = @ + 1]
        \/ world' = [world EXCEPT !.background = TRUE]
        \/ world' = [world EXCEPT !.background = FALSE]
    BY <1>2 DEF Execute, Read, Write, Fail, nativeVars
  <2>2. QED
    BY <2>1 DEF TypeInv, StateOK, World
<1>3. ASSUME NEW c \in BagToSet(calls), Settle(c)
      PROVE  world'[f] = world[f]
  BY <1>3, SettleFrame DEF nativeVars
<1>4. ASSUME NEW k \in DOMAIN inbox, Handle(k)
      PROVE  world'[f] = world[f]
  BY <1>4 DEF Handle, nativeVars
<1>5. CASE UNCHANGED vars
  BY <1>5 DEF vars, nativeVars
<1>6. QED
  BY <1>1, <1>2, <1>3, <1>4, <1>5 DEF Next

\* The hook stays the same.
LEMMA HookFixed ==
  ASSUME TypeInv, [Next]_vars
  PROVE  hook' = hook /\ instance' = instance /\ available' = available
<1>1. ASSUME NEW c \in BagToSet(calls), Execute(c) \/ Fail(c) \/ Settle(c)
      PROVE  fixed' = fixed
  BY <1>1, ExecuteFrame, SettleFrame
<1>2. CASE Mount \/ Unmount \/ Refresh \/ SetConfig \/ Tick \/ MirrorContext
  BY <1>2 DEF Mount, Unmount, Refresh, SetConfig, Tick, MirrorContext, fixed, hook
<1>3. QED
  BY <1>1, <1>2, NativeFrame DEF Next, Handle, vars, fixed, hook

-----------------------------------------------------------------------------
(***************************************************************************)
(* The last result.                                                        *)
(***************************************************************************)
\* A continuation shows what its call has read, or leaves the field alone.
LEMMA SettleShows ==
  ASSUME TypeInv, NEW c \in BagToSet(calls), Settle(c), NEW f \in {"last", "syncing"},
         f = "syncing" => "syncing" \in Mirrored
  PROVE  \/ view'[f] = view[f]
         \/ f \in DOMAIN c.got /\ view'[f] = c.got[f]
<1>1. f \in Shows \ {"loading", "connection"}
  BY DEF Shows
<1>2. CASE view'[f] = view[f]
  BY <1>2
<1>3. CASE SettleRead(c) /\ ~Cancelled(c.by) /\ f \in Parts(c.op) /\ view'[f] = ViewAfter(c)[f]
  <2>1. CallOK(c) /\ StateOK /\ Done(c) /\ c.op \in ReadOps /\ hook \in AllHooks
    BY <1>3, FromBag DEF TypeInv, SettleRead
  <2>2. f \in Mirrored
    <3>1. c.op = f
      BY <1>3, <2>1 DEF Parts
    <3>2. QED
      BY <2>1, <3>1 DEF CallOK, OpsOf, Mirrored, AllHooks
  <2>3. CASE c.ok
    <3>1. DOMAIN c.got = Parts(c.op)
      BY <2>1, <2>3, Brought
    <3>2. QED
      BY <1>3, <2>1, <2>2, <2>3, <3>1, ReadShown
  <2>4. CASE ~c.ok
    BY <1>1, <1>3, <2>1, <2>4, NothingShown
  <2>5. QED
    BY <2>3, <2>4
<1>4. QED
  BY <1>1, <1>2, <1>3, SettleView

\* The last result is known again once it was read.
LEMMA LastGivenBack ==
  ASSUME TypeInv, [Next]_vars, "last" \in stale, "last" \notin stale'
  PROVE  \E c \in BagToSet(calls) : \E d : HasRead(c, "last", d)
<1>1. CASE Mount \/ Unmount \/ Refresh \/ SetConfig \/ Tick \/ MirrorContext
  BY <1>1, ComponentView
<1>2. CASE NativeChange
  BY <1>2 DEF NativeChange, ConnectionChanges, QueueChanges, CycleStarts, CycleCloses, CycleReturns,
              CycleEndsSilently, ClearHistory, PauseChanges, Reconfigured, Announce, history
<1>3. ASSUME NEW c \in BagToSet(calls), Execute(c) \/ Fail(c)
      PROVE  \E d : HasRead(c, "last", d)
  <2>1. ASSUME NEW part, NEW d, HasRead(c, part, d)
        PROVE  part = "last"
    BY <2>1 DEF HasRead
  <2>2. QED
    BY <1>3, <2>1, Executes DEF HasWritten, HasFailed, HasDropped
<1>4. ASSUME NEW c \in BagToSet(calls), Settle(c)
      PROVE  FALSE
  BY <1>4, SettleFrame
<1>5. ASSUME NEW k \in DOMAIN inbox, Handle(k)
      PROVE  FALSE
  BY <1>5 DEF Handle, history
<1>6. CASE UNCHANGED vars
  BY <1>6 DEF vars, history
<1>7. QED
  BY <1>1, <1>2, <1>3, <1>4, <1>5, <1>6 DEF Next

\* LastInv is inductive.
LEMMA StepLast ==
  ASSUME TypeInv, LastInv, [Next]_vars
  PROVE  LastInv'
<1>1. SUFFICES ASSUME world'.last = 0, "last" \notin stale'
               PROVE  view'.last = 0 /\ \A d \in BagToSet(calls') : "last" \in DOMAIN d.got => d.got["last"] = 0
  BY DEF LastInv
<1>2. world.last = 0
  <2>1. CASE CycleCloses \/ CycleEndsSilently
    BY <1>1, <2>1, ClosedWorld, SilentWorld
  <2>2. CASE NativeChange /\ ~CycleCloses /\ ~CycleEndsSilently
    BY <1>1, <2>2 DEF NativeChange, ConnectionChanges, QueueChanges, CycleStarts, CycleReturns, ClearHistory,
                      PauseChanges, Reconfigured, TypeInv, StateOK, World
  <2>3. CASE ~NativeChange
    BY <1>1, <2>3, WorldFrame
  <2>4. QED
    BY <2>1, <2>2, <2>3
<1>3. view.last = 0 /\ \A c \in BagToSet(calls) : "last" \in DOMAIN c.got => c.got["last"] = 0
  <2>1. CASE "last" \notin stale
    BY <1>2, <2>1 DEF LastInv
  <2>2. CASE "last" \in stale
    <3>1. PICK c \in BagToSet(calls) : \E d : HasRead(c, "last", d)
      BY <1>1, <2>2, LastGivenBack
    <3>2. Alone(c) /\ ~Ignored("last") /\ c.op = "last" /\ CallOK(c) /\ "last" \in c.todo
      BY <1>1, <2>2, <3>1, FromBag DEF HasRead, ReadInPart, CallOK, Parts, CallOps, ReadOps
    <3>3. view.last = 0
      BY <1>2, <3>2 DEF Ignored
    <3>4. ASSUME NEW e \in BagToSet(calls), "last" \in DOMAIN e.got
          PROVE  FALSE
      <4>1. e.op = "last"
        BY <3>4, FromBag DEF CallOK, Parts
      <4>2. e = c
        BY <3>2, <4>1 DEF Alone, Under
      <4>3. QED
        BY <3>2, <3>4, <4>2 DEF CallOK
    <3>5. QED
      BY <3>3, <3>4
  <2>3. QED
    BY <2>1, <2>2
<1>4. \A d \in BagToSet(calls') : "last" \in DOMAIN d.got => d.got["last"] = 0
  BY <1>2, <1>3, Answers
<1>5. view'.last = 0
  <2>1. CASE Mount \/ Unmount \/ Refresh \/ SetConfig \/ Tick \/ MirrorContext
    BY <1>3, <2>1, ComponentView DEF Shows
  <2>2. CASE NativeChange \/ UNCHANGED vars
    BY <1>3, <2>2, NativeFrame DEF vars
  <2>3. ASSUME NEW c \in BagToSet(calls), Execute(c) \/ Fail(c)
        PROVE  view'.last = 0
    BY <1>3, <2>3, ExecuteFrame
  <2>4. ASSUME NEW c \in BagToSet(calls), Settle(c)
        PROVE  view'.last = 0
    BY <1>3, <2>4, SettleShows
  <2>5. ASSUME NEW k \in DOMAIN inbox, Handle(k)
        PROVE  view'.last = 0
    BY <1>3, <2>5, HandleView
  <2>6. QED
    BY <2>1, <2>2, <2>3, <2>4, <2>5 DEF Next
<1>6. QED
  BY <1>4, <1>5

-----------------------------------------------------------------------------
(***************************************************************************)
(* The pause.                                                              *)
(***************************************************************************)
\* Nothing about the pause changes.
LEMMA PausedKept ==
  ASSUME PausedInv, stale' = stale \/ "paused" \notin stale, hook' = hook, inbox' = inbox,
         world'.paused = world.paused, view'.paused = view.paused
  PROVE  PausedInv'
<1>1. Mirrored' = Mirrored /\ (Pending(PauseEvents)' <=> Pending(PauseEvents))
  BY DEF Mirrored, Pending, PauseEvents
<1>2. QED
  BY <1>1 DEF PausedInv, PauseEvents

\* A pause or resume is the only such event under way, or the field is given up.
LEMMA ChangePaused ==
  ASSUME TypeInv, PausedInv, NativeChange
  PROVE  PausedInv'
<1>1. hook' = hook /\ view' = view /\ Mirrored' = Mirrored
  BY NativeFrame DEF Mirrored
<1>2. CASE PauseChanges
  <2>1. PICK paused \in BOOLEAN :
          /\ world' = [world EXCEPT !.paused = paused]
          /\ Announce(IF paused THEN "PAUSED" ELSE "RESUMED", "none", {"paused"}, {"paused"},
                      When(Pending({"PAUSED", "RESUMED"}), {"paused"}))
    BY <1>2 DEF PauseChanges
  <2> DEFINE type == IF paused THEN "PAUSED" ELSE "RESUMED"
  <2>2. type \in PauseEvents /\ type \in SyncEventType /\ (type = "PAUSED" <=> paused)
    BY DEF PauseEvents, SyncEventType
  <2>3. world'.paused = paused
    BY <2>1 DEF TypeInv, StateOK, World
  <2>4. /\ Emit(type, "none")
        /\ stale' = IF Listening THEN (stale \ {"paused"}) \cup When(Pending(PauseEvents), {"paused"})
                                 ELSE stale \cup {"paused"}
    BY <2>1 DEF Announce, PauseEvents
  <2> HIDE DEF type
  <2>5. CASE "paused" \in stale'
    BY <2>5 DEF PausedInv
  <2>6. CASE "paused" \notin stale'
    <3>1. listeners # {} /\ ~Pending(PauseEvents)
      BY <2>4, <2>6 DEF Listening, When
    <3>2. Emitted(type, "none")
      BY <2>2, <2>4, EmitFacts
    <3>3. Pending(PauseEvents)'
      BY <2>2, <3>1, <3>2, PendingKept DEF Pending, PauseEvents
    <3>4. ASSUME NEW i \in DOMAIN inbox', inbox'[i].type \in PauseEvents
          PROVE  inbox'[i].type = "PAUSED" <=> world'.paused
      <4>1. ~(i \in DOMAIN inbox /\ inbox'[i] = inbox[i])
        BY <3>1, <3>4 DEF Pending
      <4>2. inbox'[i].type = type
        BY <3>2, <4>1, OldOrNew
      <4>3. QED
        BY <2>2, <2>3, <4>2
    <3>5. QED
      BY <3>3, <3>4 DEF PausedInv, PauseEvents
  <2>7. QED
    BY <2>5, <2>6
<1>3. CASE ConnectionChanges \/ QueueChanges \/ CycleStarts \/ CycleCloses
  <2>1. world'.paused = world.paused
    <3>1. CASE CycleCloses
      BY <3>1, ClosedWorld
    <3>2. CASE ConnectionChanges \/ QueueChanges \/ CycleStarts
      BY <3>2 DEF ConnectionChanges, QueueChanges, CycleStarts, TypeInv, StateOK, World
    <3>3. QED
      BY <1>3, <3>1, <3>2
  <2>2. PICK type \in SyncEventType \ PauseEvents, status \in ConnectionStatus \cup {"none"} : Emit(type, status)
    BY <1>3 DEF ConnectionChanges, QueueChanges, CycleStarts, CycleCloses, Announce, SyncEventType,
                RefreshEvents, QueueEvents, ClosingEvents, PauseEvents, ConnectionStatus
  <2>3. Emitted(type, status)
    BY <2>2, EmitFacts
  <2>4. Pending(PauseEvents) => Pending(PauseEvents)'
    BY <2>3, PendingKept DEF Pending, PauseEvents
  <2>5. ASSUME NEW i \in DOMAIN inbox', inbox'[i].type \in PauseEvents
        PROVE  i \in DOMAIN inbox /\ inbox'[i] = inbox[i]
    BY <2>2, <2>3, <2>5, OldOrNew
  <2>6. "paused" \notin stale' => "paused" \notin stale
    BY <1>3 DEF ConnectionChanges, QueueChanges, CycleStarts, CycleCloses, Announce
  <2>7. QED
    BY <1>1, <2>1, <2>4, <2>5, <2>6 DEF PausedInv, PauseEvents
<1>4. CASE Untold
  <2>1. world'.paused = world.paused /\ inbox' = inbox
    <3>1. CASE CycleEndsSilently
      BY <3>1, SilentWorld
    <3>2. CASE CycleReturns \/ ClearHistory \/ Reconfigured
      BY <3>2 DEF CycleReturns, ClearHistory, Reconfigured, TypeInv, StateOK, World
    <3>3. QED
      BY <1>4, <3>1, <3>2 DEF Untold
  <2>2. stale' = stale \/ "paused" \notin stale \/ "paused" \in stale'
    BY <1>4 DEF Untold, CycleReturns, CycleEndsSilently, ClearHistory, Reconfigured, history
  <2>3. CASE "paused" \in stale'
    BY <2>3 DEF PausedInv
  <2>4. QED
    BY <1>1, <2>1, <2>2, <2>3, PausedKept
<1>5. QED
  BY <1>2, <1>3, <1>4 DEF NativeChange, Untold

\* The last pause or resume event to be handled tells how it is.
LEMMA HandlePaused ==
  ASSUME TypeInv, PausedInv, NEW k \in DOMAIN inbox, Handle(k)
  PROVE  PausedInv'
<1>1. /\ Handled(k) /\ stale' = stale /\ world' = world /\ Mirrored' = Mirrored
      /\ view'.paused = IF "paused" \notin Mirrored THEN view.paused
                        ELSE (view.paused \/ inbox[k].type = "PAUSED") /\ inbox[k].type # "RESUMED"
  BY HandleFacts, HandleView DEF Handle, history, nativeVars, Mirrored, hook, fixed
<1>2. SUFFICES ASSUME "paused" \in Mirrored \ stale
               PROVE  /\ \A i \in DOMAIN inbox' : inbox'[i].type \in PauseEvents =>
                                                    (inbox'[i].type = "PAUSED" <=> world'.paused)
                      /\ ~Pending(PauseEvents)' => view'.paused = world'.paused
  BY <1>1 DEF PausedInv, PauseEvents
<1>3. ASSUME NEW i \in DOMAIN inbox', inbox'[i].type \in PauseEvents
      PROVE  inbox'[i].type = "PAUSED" <=> world'.paused
  <2>1. \E j \in DOMAIN inbox : inbox'[i] = inbox[j]
    BY <1>1 DEF Handled
  <2>2. QED
    BY <1>1, <1>2, <1>3, <2>1 DEF PausedInv
<1>4. ASSUME ~Pending(PauseEvents)'
      PROVE  view'.paused = world'.paused
  <2>1. view.paused \in BOOLEAN /\ world.paused \in BOOLEAN
    BY DEF TypeInv, StateOK, View, World
  <2>2. CASE inbox[k].type \in PauseEvents
    <3>1. inbox[k].type = "PAUSED" <=> world.paused
      BY <1>2, <2>2 DEF PausedInv
    <3>2. QED
      BY <1>1, <1>2, <2>1, <2>2, <3>1 DEF PauseEvents
  <2>3. CASE inbox[k].type \notin PauseEvents
    <3>1. ~Pending(PauseEvents)
      BY <1>1, <1>4, <2>3, StillPending
    <3>2. view.paused = world.paused
      BY <1>2, <3>1 DEF PausedInv
    <3>3. QED
      BY <1>1, <1>2, <2>1, <2>3, <3>2 DEF PauseEvents
  <2>4. QED
    BY <2>2, <2>3
<1>5. QED
  BY <1>3, <1>4

\* PausedInv is inductive.
LEMMA StepPaused ==
  ASSUME TypeInv, PausedInv, [Next]_vars
  PROVE  PausedInv'
<1>1. CASE "paused" \in stale'
  BY <1>1 DEF PausedInv
<1>2. CASE "paused" \notin stale'
  <2>1. ~NativeChange => "paused" \notin stale
    BY <1>2, StaleStays
  <2>2. ASSUME hook' = hook, inbox' = inbox, view'.paused = view.paused, ~NativeChange
        PROVE  PausedInv'
    BY <2>1, <2>2, WorldFrame, PausedKept
  <2>3. CASE Mount \/ Unmount \/ Refresh \/ SetConfig \/ Tick \/ MirrorContext
    <3>1. hook' = hook /\ inbox' = inbox /\ view'.paused = view.paused
      BY <2>3, ComponentView DEF Shows
    <3>2. QED
      BY <2>2, <3>1, ChangePaused
  <2>4. CASE NativeChange
    BY <2>4, ChangePaused
  <2>5. ASSUME NEW c \in BagToSet(calls), Execute(c) \/ Fail(c)
        PROVE  PausedInv'
    BY <2>2, <2>5, ExecuteFrame, ChangePaused
  <2>6. ASSUME NEW c \in BagToSet(calls), Settle(c)
        PROVE  PausedInv'
    <3>1. hook' = hook /\ inbox' = inbox
      BY <2>6, SettleFrame
    <3>2. view'.paused = view.paused
      <4>1. "paused" \in Shows \ {"loading"}
        BY DEF Shows
      <4>2. SettleRead(c) => "paused" \notin Parts(c.op)
        BY DEF SettleRead, ReadOps, Parts
      <4>3. QED
        BY <2>6, <4>1, <4>2, SettleView
    <3>3. QED
      BY <2>2, <3>1, <3>2, ChangePaused
  <2>7. ASSUME NEW k \in DOMAIN inbox, Handle(k)
        PROVE  PausedInv'
    BY <2>7, HandlePaused
  <2>8. CASE UNCHANGED vars
    <3>1. hook' = hook /\ inbox' = inbox /\ view' = view
      BY <2>8 DEF vars, fixed, hook
    <3>2. QED
      BY <2>2, <3>1, ChangePaused
  <2>9. QED
    BY <2>3, <2>4, <2>5, <2>6, <2>7, <2>8 DEF Next
<1>3. QED
  BY <1>1, <1>2

-----------------------------------------------------------------------------
(***************************************************************************)
(* isSyncing.                                                              *)
(***************************************************************************)
\* The probes that are under way answer that no cycle runs.
LEMMA AnswersLowered ==
  ASSUME TypeInv, SyncingInv, [Next]_vars, "syncing" \in Mirrored, "syncing" \notin stale', ~Active, ~NativeChange,
         NEW d \in BagToSet(calls'), "syncing" \in DOMAIN d.got
  PROVE  ~d.got["syncing"]
<1>1. "syncing" \notin stale
  BY StaleStays
<1>2. LoweredInTime
  BY <1>1 DEF SyncingInv
<1>3. CASE \E c \in BagToSet(calls) : "syncing" \in DOMAIN c.got /\ c.got["syncing"] = d.got["syncing"]
  BY <1>2, <1>3 DEF LoweredInTime
<1>4. ASSUME NEW c \in BagToSet(calls), HasRead(c, "syncing", d), d.got["syncing"] = world["syncing"]
      PROVE  ~d.got["syncing"]
  <2>1. ~world.closing
    BY <1>4 DEF HasRead, When
  <2>2. QED
    BY <1>4, <2>1 DEF Active
<1>5. QED
  BY <1>3, <1>4, Answers

\* Nothing is raised and no event is handled.
LEMMA LoweredKept ==
  ASSUME TypeInv, SyncingInv, [Next]_vars, "syncing" \in Mirrored, "syncing" \notin stale', ~Active, ~NativeChange,
         inbox' = inbox, view'.syncing => view.syncing
  PROVE  LoweredInTime'
<1>1. LoweredInTime
  BY StaleStays DEF SyncingInv
<1>2. \A d \in BagToSet(calls') : "syncing" \in DOMAIN d.got => ~d.got["syncing"]
  BY AnswersLowered
<1>3. Pending(ClosingEvents)' <=> Pending(ClosingEvents)
  BY DEF Pending, ClosingEvents
<1>4. QED
  BY <1>1, <1>2, <1>3 DEF LoweredInTime, ClosingEvents

\* Events of one cycle are handled in their order: the closing event after the one that raised.
LEMMA HandleLowered ==
  ASSUME TypeInv, SyncingInv, NEW k \in DOMAIN inbox, Handle(k), "syncing" \in Mirrored \ stale, ~Active
  PROVE  LoweredInTime'
<1>1. LoweredInTime /\ Handled(k)
  BY HandleFacts DEF SyncingInv
<1>2. view'.syncing = ((view.syncing \/ inbox[k].type = "SYNC_STARTED") /\ inbox[k].type \notin ClosingEvents)
  BY HandleView
<1>3. \A j \in DOMAIN inbox \ {k} : At(k, j) \in DOMAIN inbox' /\ inbox'[At(k, j)] = inbox[j]
  BY <1>1, HandledOrder
<1>4. ASSUME view'.syncing
      PROVE  Pending(ClosingEvents)'
  <2>1. inbox[k].type \notin ClosingEvents
    BY <1>2, <1>4
  <2>2. Pending(ClosingEvents)
    BY <1>1, <1>2, <1>4 DEF LoweredInTime, Pending
  <2>3. QED
    BY <1>1, <2>1, <2>2, StillPending DEF Pending, ClosingEvents
<1>5. ASSUME NEW i \in DOMAIN inbox', inbox'[i].type = "SYNC_STARTED"
      PROVE  \E j \in DOMAIN inbox' : j > i /\ inbox'[j].type \in ClosingEvents
  <2>1. PICK a \in DOMAIN inbox \ {k} : i = At(k, a)
    BY <1>1, HandledOrder
  <2>2. inbox[a].type = "SYNC_STARTED"
    BY <1>3, <1>5, <2>1
  <2>3. PICK b \in DOMAIN inbox : b > a /\ inbox[b].type \in ClosingEvents
    BY <1>1, <2>1, <2>2 DEF LoweredInTime
  <2>4. a \in Nat /\ b \in Nat /\ k \in Nat /\ a \in 1..Len(inbox) /\ Len(inbox) \in Nat
    BY <1>1 DEF Handled
  <2>5. b # k
    <3>1. SUFFICES ASSUME b = k
                   PROVE  FALSE
      OBVIOUS
    <3>2. inbox[k].type \in CycleEvents /\ inbox[a].type \in CycleEvents
      BY <2>2, <2>3, <3>1 DEF CycleEvents
    <3>3. a \in 1..(k - 1)
      BY <2>3, <2>4, <3>1
    <3>4. QED
      BY <3>2, <3>3 DEF Handle
  <2>6. At(k, a) < At(k, b)
    BY <1>1, <2>1, <2>3, <2>4, <2>5, HandledOrder
  <2>7. At(k, b) > i
    BY <2>1, <2>4, <2>6 DEF At
  <2>8. At(k, b) \in DOMAIN inbox' /\ inbox'[At(k, b)].type \in ClosingEvents
    BY <1>3, <2>3, <2>5
  <2>9. QED
    BY <2>7, <2>8
<1>6. ASSUME NEW d \in BagToSet(calls'), "syncing" \in DOMAIN d.got
      PROVE  ~d.got["syncing"]
  <2>1. d \in BagToSet(calls)
    BY <1>6, HandleCalls, AskedFields DEF Moves
  <2>2. QED
    BY <1>1, <1>6, <2>1 DEF LoweredInTime
<1>7. QED
  BY <1>4, <1>5, <1>6 DEF LoweredInTime

\* An event of another kind changes nothing.
LEMMA LoweredEmitted ==
  ASSUME NEW type, NEW status, Emitted(type, status), type # "SYNC_STARTED", LoweredInTime,
         view' = view, calls' = calls
  PROVE  LoweredInTime'
<1>1. Pending(ClosingEvents) => Pending(ClosingEvents)'
  BY PendingKept DEF Pending, ClosingEvents
<1>2. ASSUME NEW i \in DOMAIN inbox', inbox'[i].type = "SYNC_STARTED"
      PROVE  \E j \in DOMAIN inbox' : j > i /\ inbox'[j].type \in ClosingEvents
  <2>1. i \in DOMAIN inbox /\ inbox'[i] = inbox[i]
    BY <1>2, OldOrNew
  <2>2. PICK j \in DOMAIN inbox : j > i /\ inbox[j].type \in ClosingEvents
    BY <1>2, <2>1 DEF LoweredInTime
  <2>3. j \in DOMAIN inbox' /\ inbox'[j] = inbox[j]
    BY EmittedDomain DEF Emitted
  <2>4. QED
    BY <2>2, <2>3
<1>3. QED
  BY <1>1, <1>2 DEF LoweredInTime, ClosingEvents

\* The closing event comes after everything the cycle told of.
LEMMA ClosesLowered ==
  ASSUME TypeInv, CycleCloses, "syncing" \in Mirrored, "syncing" \notin stale'
  PROVE  LoweredInTime'
<1>1. PICK type \in ClosingEvents :
        Announce(type, "none", {"size", "items", "syncing", "last"}, {"syncing"},
                 When(Under("syncing") # {}, {"syncing"}))
  BY DEF CycleCloses
<1>2. Listening /\ Under("syncing") = {}
  BY <1>1 DEF Announce, When
<1>3. listeners # {}
  BY <1>2 DEF Listening
<1>4. type \in SyncEventType /\ type # "SYNC_STARTED"
  BY DEF ClosingEvents, SyncEventType
<1>5. Emitted(type, "none") /\ calls' = calls
  BY <1>1, <1>4, EmitFacts DEF Announce
<1>6. Len(inbox) < Len(inbox') /\ Len(inbox) \in Nat /\ Len(inbox') \in Nat /\ DOMAIN inbox = 1..Len(inbox)
  BY <1>3, <1>5 DEF Emitted
<1>7. Len(inbox') \in DOMAIN inbox' /\ inbox'[Len(inbox')].type \in ClosingEvents
  <2>1. Len(inbox') \in DOMAIN inbox' /\ Len(inbox') \in 1..Len(inbox') /\ Len(inbox') > Len(inbox)
    BY <1>5, <1>6, EmittedDomain
  <2>2. QED
    BY <1>5, <2>1 DEF Emitted
<1>8. Pending(ClosingEvents)'
  BY <1>7 DEF Pending, ClosingEvents
<1>9. ASSUME NEW i \in DOMAIN inbox', inbox'[i].type = "SYNC_STARTED"
      PROVE  \E j \in DOMAIN inbox' : j > i /\ inbox'[j].type \in ClosingEvents
  <2>1. i \in DOMAIN inbox
    BY <1>4, <1>5, <1>9, OldOrNew
  <2>2. Len(inbox') > i
    BY <1>6, <2>1
  <2>3. QED
    BY <1>7, <2>2
<1>10. ASSUME NEW c \in BagToSet(calls), "syncing" \in DOMAIN c.got
       PROVE  FALSE
  <2>1. CallOK(c)
    BY FromBag
  <2>2. c.op = "syncing"
    BY <1>10, <2>1 DEF CallOK, Parts
  <2>3. QED
    BY <1>2, <2>2 DEF Under
<1>11. QED
  BY <1>5, <1>8, <1>9, <1>10 DEF LoweredInTime, ClosingEvents

\* A change that is neither the start nor the end of a cycle.
LEMMA OtherChanges ==
  ASSUME TypeInv, ConnectionChanges \/ QueueChanges \/ PauseChanges \/ ClearHistory \/ Reconfigured
  PROVE  /\ world'.syncing = world.syncing /\ world'.closing = world.closing
         /\ \/ inbox' = inbox
            \/ \E type \in SyncEventType \ ({"SYNC_STARTED"} \cup ClosingEvents),
                  status \in ConnectionStatus \cup {"none"} : Emitted(type, status)
<1>1. world'.syncing = world.syncing /\ world'.closing = world.closing
  BY DEF ConnectionChanges, QueueChanges, PauseChanges, ClearHistory, Reconfigured, TypeInv, StateOK, World
<1>2. CASE ClearHistory \/ Reconfigured
  BY <1>1, <1>2 DEF ClearHistory, Reconfigured
<1>3. CASE ConnectionChanges \/ QueueChanges \/ PauseChanges
  <2>1. PICK type \in SyncEventType \ ({"SYNC_STARTED"} \cup ClosingEvents),
             status \in ConnectionStatus \cup {"none"} : Emit(type, status)
    BY <1>3 DEF ConnectionChanges, QueueChanges, PauseChanges, Announce, SyncEventType,
                RefreshEvents, QueueEvents, ClosingEvents, ConnectionStatus
  <2>2. Emitted(type, status)
    BY <2>1, EmitFacts
  <2>3. QED
    BY <1>1, <2>2
<1>4. QED
  BY <1>2, <1>3

\* Native changes: the closing event is emitted before the flag is lowered.
LEMMA ChangeSyncing ==
  ASSUME TypeInv, SyncingInv, NativeChange
  PROVE  SyncingInv'
<1>1. view' = view /\ calls' = calls /\ Mirrored' = Mirrored
  BY NativeFrame DEF Mirrored
<1>2. CASE CycleStarts
  <2>1. world' = [world EXCEPT !.syncing = TRUE] /\ ~world.syncing /\ world \in World
    BY <1>2 DEF CycleStarts, TypeInv, StateOK
  <2>2. world'.syncing = TRUE /\ world'.closing = world.closing /\ ~world.closing
    BY <2>1 DEF World, SyncingInv
  <2>3. QED
    BY <2>2 DEF SyncingInv, Active
<1>3. CASE CycleCloses
  <2>1. world'.syncing = world.syncing /\ world.syncing
    BY <1>3, ClosedWorld
  <2>2. "syncing" \in Mirrored \ stale' => LoweredInTime'
    BY <1>3, ClosesLowered
  <2>3. QED
    BY <1>1, <2>1, <2>2 DEF SyncingInv
<1>4. CASE CycleReturns
  <2>1. ~world'.closing
    BY <1>4 DEF CycleReturns, TypeInv, StateOK, World
  <2>2. ~Active /\ inbox' = inbox /\ stale' = stale
    BY <1>4 DEF CycleReturns, Active, history
  <2>3. LoweredInTime => LoweredInTime'
    BY <1>1, <2>2 DEF LoweredInTime, Pending, ClosingEvents
  <2>4. QED
    BY <1>1, <2>1, <2>2, <2>3 DEF SyncingInv
<1>5. CASE ConnectionChanges \/ QueueChanges \/ PauseChanges \/ ClearHistory \/ Reconfigured
  <2>1. world'.syncing = world.syncing /\ world'.closing = world.closing
    BY <1>5, OtherChanges
  <2>2. LoweredInTime => LoweredInTime'
    <3>1. CASE inbox' = inbox
      BY <1>1, <3>1 DEF LoweredInTime, Pending, ClosingEvents
    <3>2. CASE inbox' # inbox
      BY <1>1, <1>5, <3>2, OtherChanges, LoweredEmitted
    <3>3. QED
      BY <3>1, <3>2
  <2>3. "syncing" \notin stale' => "syncing" \notin stale
    BY <1>5 DEF ConnectionChanges, QueueChanges, PauseChanges, ClearHistory, Reconfigured, Announce
  <2>4. Active' <=> Active
    BY <2>1 DEF Active
  <2>5. QED
    BY <1>1, <2>1, <2>2, <2>3, <2>4 DEF SyncingInv
<1>6. CASE CycleEndsSilently
  BY <1>6, SilentWorld DEF SyncingInv
<1>7. QED
  BY <1>2, <1>3, <1>4, <1>5, <1>6 DEF NativeChange

\* SyncingInv is inductive.
LEMMA StepSyncing ==
  ASSUME TypeInv, SyncingInv, [Next]_vars
  PROVE  SyncingInv'
<1>1. CASE NativeChange
  BY <1>1, ChangeSyncing
<1>2. CASE ~NativeChange
  <2>1. world'.syncing = world.syncing /\ world'.closing = world.closing
    BY <1>2, WorldFrame
  <2>2. Active' <=> Active
    BY <2>1 DEF Active
  <2>3. ASSUME "syncing" \in Mirrored \ stale', ~Active, hook' = hook
        PROVE  LoweredInTime'
    <3>1. "syncing" \notin stale
      BY <1>2, <2>3, StaleStays
    <3>2. ASSUME inbox' = inbox, view'.syncing => view.syncing
          PROVE  LoweredInTime'
      BY <1>2, <2>3, <3>2, LoweredKept
    <3>3. CASE Mount \/ Unmount \/ Refresh \/ SetConfig \/ Tick \/ MirrorContext
      BY <3>2, <3>3, ComponentView DEF Shows
    <3>4. ASSUME NEW c \in BagToSet(calls), Execute(c) \/ Fail(c)
          PROVE  LoweredInTime'
      BY <3>2, <3>4, ExecuteFrame
    <3>5. ASSUME NEW c \in BagToSet(calls), Settle(c)
          PROVE  LoweredInTime'
      <4>1. "syncing" \in DOMAIN c.got => ~c.got["syncing"]
        BY <2>3, <3>1 DEF SyncingInv, LoweredInTime
      <4>2. inbox' = inbox
        BY <3>5, SettleFrame
      <4>3. view'.syncing => view.syncing
        BY <2>3, <3>5, <4>1, SettleShows
      <4>4. QED
        BY <3>2, <4>2, <4>3
    <3>6. ASSUME NEW k \in DOMAIN inbox, Handle(k)
          PROVE  LoweredInTime'
      BY <2>3, <3>1, <3>6, HandleLowered
    <3>7. CASE UNCHANGED vars
      BY <3>2, <3>7 DEF vars
    <3>8. QED
      BY <1>2, <3>3, <3>4, <3>5, <3>6, <3>7 DEF Next
  <2>4. hook' = hook
    BY HookFixed
  <2>5. Mirrored' = Mirrored
    BY <2>4 DEF Mirrored
  <2>6. QED
    BY <2>1, <2>2, <2>3, <2>4, <2>5 DEF SyncingInv
<1>3. QED
  BY <1>1, <1>2

-----------------------------------------------------------------------------
(***************************************************************************)
(* The fields that are read.                                               *)
(***************************************************************************)
\* The call that reads a field reads nothing else than its parts.
LEMMA FieldRead ==
  ASSUME NEW f \in ReadFields
  PROVE  /\ f \in Parts(OpOf(f)) /\ OpOf(f) \in ReadOps /\ OpOf(f) # "syncing"
         /\ OpOf(f) \notin {"add", "remove", "configure", "enable", "disable", "flush"}
         /\ f \in Shows \ {"loading", "syncing", "paused"}
         /\ \A op \in CallOps : f \in Parts(op) => op = OpOf(f)
  BY DEF ReadFields, Parts, OpOf, ReadOps, Shows, CallOps

\* A read that was just asked for has the field still to read.
LEMMA AskedRead ==
  ASSUME NEW f \in ReadFields, NEW c, NEW g, Asked(c, g), c.op = OpOf(f)
  PROVE  f \in c.todo
  BY AskedFields, FieldRead

\* Calls of another kind come and go.
LEMMA UnderKept ==
  ASSUME NEW out, NEW in, Moves(out, in), NEW op, \A c \in out \cup in : c.op # op
  PROVE  Under(op)' = Under(op) /\ \A c \in Under(op) : calls'[c] = calls[c]
<1>1. \A c \in BagToSet(calls) : c.op = op => c \in BagToSet(calls') /\ calls'[c] = calls[c]
  BY DEF Moves
<1>2. \A c \in BagToSet(calls') : c.op = op => c \in BagToSet(calls)
  BY DEF Moves
<1>3. QED
  BY <1>1, <1>2 DEF Under

\* Neither the field nor its calls are touched.
LEMMA ReadKept ==
  ASSUME NEW f \in ReadFields, Known(f), NEW out, NEW in, Moves(out, in),
         hook' = hook, Current' = Current, view'[f] = view[f], world'[f] = world[f],
         \A c \in out : c.op # OpOf(f),
         \A c \in in : c.op = OpOf(f) => f \in c.todo,
         Pending(Asking(f)) => Pending(Asking(f))' \/ \E c \in in : c.op = OpOf(f),
         f \in {"size", "items"} /\ Active => Active',
         hook = "SyncProvider" /\ (\E c \in out : c.op = "configure") =>
           \E c \in in : c.op \in {"configure", "config"}
  PROVE  Known(f)'
<1>1. CASE \E c \in in : c.op = OpOf(f)
  <2>1. PICK c \in in : c.op = OpOf(f) /\ f \in c.todo
    BY <1>1
  <2>2. c \in BagToSet(calls')
    BY DEF Moves
  <2>3. QED
    BY <2>1, <2>2 DEF Known, Underway
<1>2. CASE ~\E c \in in : c.op = OpOf(f)
  <2>1. Under(OpOf(f))' = Under(OpOf(f)) /\ \A c \in Under(OpOf(f)) : calls'[c] = calls[c]
    <3>1. \A c \in out \cup in : c.op # OpOf(f)
      BY <1>2
    <3>2. QED
      BY <3>1, UnderKept
  <2>2. ASSUME Underway(f)
        PROVE  Underway(f)'
    <3>1. CASE Pending(Asking(f))
      BY <1>2, <3>1 DEF Underway
    <3>2. ASSUME NEW c \in BagToSet(calls), c.op = OpOf(f), f \in c.todo
          PROVE  Underway(f)'
      <4>1. c \in BagToSet(calls')
        BY <3>2 DEF Moves
      <4>2. QED
        BY <3>2, <4>1 DEF Underway
    <3>3. ASSUME f = "config", hook = "SyncProvider", NEW c \in BagToSet(calls), c.op = "configure"
          PROVE  Underway(f)'
      <4>1. OpOf(f) = "config"
        BY <3>3 DEF OpOf
      <4>2. \E d \in BagToSet(calls') : d.op = "configure"
        <5>1. CASE c \in out
          BY <1>2, <3>3, <4>1, <5>1 DEF Moves
        <5>2. CASE c \notin out
          BY <3>3, <5>2 DEF Moves
        <5>3. QED
          BY <5>1, <5>2
      <4>3. QED
        BY <3>3, <4>2 DEF Underway
    <3>4. CASE f \in {"size", "items"} /\ Active
      BY <3>4 DEF Underway
    <3>5. QED
      BY <2>2, <3>1, <3>2, <3>3, <3>4 DEF Underway
  <2>3. ASSUME Answered(f)
        PROVE  Answered(f)'
    <3>1. CASE Under(OpOf(f)) = {} /\ view[f] = world[f]
      BY <2>1, <3>1 DEF Answered
    <3>2. ASSUME NEW c \in BagToSet(calls), Alone(c), c.op = OpOf(f), c.by = Current, c.ok,
                 f \in DOMAIN c.got, c.got[f] = world[f]
          PROVE  Answered(f)'
      <4>1. c \in Under(OpOf(f))
        BY <3>2 DEF Under
      <4>2. Alone(c)' /\ c \in BagToSet(calls')
        BY <2>1, <3>2, <4>1 DEF Alone, Under
      <4>3. QED
        BY <3>2, <4>2 DEF Answered
    <3>3. QED
      BY <2>3, <3>1, <3>2 DEF Answered
  <2>4. QED
    BY <2>2, <2>3 DEF Known
<1>3. QED
  BY <1>1, <1>2

\* Every effect reads the fields its hook shows, the provider once it has configured.
LEMMA StartReads ==
  ASSUME hook \in AllHooks, NEW f \in Mirrored \cap ReadFields, NEW g
  PROVE  \E c \in StartCalls(g) :
           \/ c.op = OpOf(f) /\ f \in c.todo
           \/ f = "config" /\ hook = "SyncProvider" /\ c.op = "configure"
<1> USE DEF OpOf, Ask, NewCall, Parts, ReadFields
<1>1. CASE hook = "useConnection"
  BY <1>1 DEF StartCalls, UseConnectionStart, Mirrored
<1>2. CASE hook = "useSyncStatus"
  BY <1>2 DEF StartCalls, UseSyncStatusStart, Mirrored
<1>3. CASE hook = "useSyncQueue"
  BY <1>3 DEF StartCalls, UseSyncQueueStart, Mirrored
<1>4. CASE hook = "useOfflineQueue"
  <2>1. Ask(OpOf(f), g) \in StartCalls(g)
    BY <1>4 DEF StartCalls, UseOfflineQueueStart, Mirrored
  <2>2. QED
    BY <2>1
<1>5. CASE hook = "useSyncSnapshot"
  <2>1. Ask(OpOf(f), g) \in StartCalls(g)
    BY <1>5 DEF StartCalls, UseSyncSnapshotStart, Mirrored
  <2>2. QED
    BY <2>1
<1>6. CASE hook = "useSyncConfig"
  BY <1>6 DEF StartCalls, UseSyncConfigStart, Mirrored
<1>7. CASE hook = "SyncProvider"
  BY <1>7 DEF StartCalls, SyncProviderStart, Mirrored
<1>8. CASE hook \in {"useSyncEvents", "useAutoSync"}
  BY <1>8 DEF Mirrored
<1>9. QED
  BY <1>1, <1>2, <1>3, <1>4, <1>5, <1>6, <1>7, <1>8 DEF AllHooks

\* The listeners read again what an event tells of.
LEMMA EventReads ==
  ASSUME hook \in AllHooks, NEW f \in Mirrored \cap ReadFields, NEW e, e.type \in Asking(f)
  PROVE  \E c \in EventCalls(e) : c.op = OpOf(f)
<1>0. \A op : Ask(op, e.to).op = op
  BY DEF Ask, NewCall
<1>1. CASE hook = "useConnection"
  BY <1>1 DEF EventCalls, UseConnectionEvent, Mirrored, OpOf, Ask, NewCall, ReadFields, Asking, When
<1>2. CASE hook = "useSyncStatus"
  BY <1>2 DEF EventCalls, UseSyncStatusEvent, Mirrored, OpOf, Ask, NewCall, ReadFields, Asking, When
<1>3. CASE hook = "useSyncQueue"
  BY <1>3 DEF EventCalls, UseSyncQueueEvent, Mirrored, OpOf, Ask, NewCall, ReadFields, Asking, When
<1>4. CASE hook = "useOfflineQueue"
  <2>1. Ask(OpOf(f), e.to) \in EventCalls(e)
    BY <1>4 DEF EventCalls, UseOfflineQueueEvent, Mirrored, When, OpOf, Asking, ReadFields
  <2>2. QED
    BY <2>1, <1>0
<1>5. CASE hook = "useSyncSnapshot"
  <2>1. Ask(OpOf(f), e.to) \in EventCalls(e)
    BY <1>5 DEF EventCalls, UseSyncSnapshotEvent, Mirrored, When, OpOf, Asking, ReadFields
  <2>2. QED
    BY <2>1, <1>0
<1>6. CASE hook = "useSyncConfig"
  BY <1>6 DEF EventCalls, UseSyncConfigEvent, Mirrored, OpOf, Ask, NewCall, ReadFields, Asking, When
<1>7. CASE hook = "SyncProvider"
  BY <1>7 DEF EventCalls, SyncProviderEvent, Mirrored, OpOf, Ask, NewCall, ReadFields, Asking, When
<1>8. CASE hook \in {"useSyncEvents", "useAutoSync"}
  BY <1>8 DEF Mirrored
<1>9. QED
  BY <1>1, <1>2, <1>3, <1>4, <1>5, <1>6, <1>7, <1>8 DEF AllHooks

\* The effect starts the reads.
LEMMA MountReads ==
  ASSUME TypeInv, Mount, available, NEW f \in Mirrored \cap ReadFields
  PROVE  Known(f)'
<1>1. hook' = hook /\ hook \in AllHooks
  BY InstanceTyped, HookFixed DEF TypeInv, Next
<1>2. PICK c \in StartCalls(Current') : \/ c.op = OpOf(f) /\ f \in c.todo
                                        \/ f = "config" /\ hook = "SyncProvider" /\ c.op = "configure"
  BY <1>1, StartReads
<1>3. c \in BagToSet(calls')
  BY <1>2, MountCalls DEF Moves, When
<1>4. QED
  BY <1>1, <1>2, <1>3 DEF Known, Underway

\* Calls made by the component or for an event, while all else stays.
LEMMA IssueReads ==
  ASSUME TypeInv, NEW f \in ReadFields, Known(f), NEW g, NEW in, Moves({}, in), \A c \in in : Asked(c, g),
         hook' = hook, Current' = Current, view'[f] = view[f], world' = world,
         Pending(Asking(f)) => Pending(Asking(f))' \/ \E c \in in : c.op = OpOf(f)
  PROVE  Known(f)'
<1>1. Active => Active'
  BY DEF Active
<1>2. \A c \in in : c.op = OpOf(f) => f \in c.todo
  BY AskedRead
<1>3. QED
  BY <1>1, <1>2, ReadKept

\* The component makes more of them.
LEMMA CallMadeReads ==
  ASSUME TypeInv, Refresh \/ SetConfig \/ Tick \/ MirrorContext \/ UNCHANGED vars,
         NEW f \in ReadFields, Known(f)
  PROVE  Known(f)'
<1>1. /\ hook' = hook /\ Current' = Current /\ view'[f] = view[f] /\ world' = world
      /\ inbox' = inbox
  <2>1. f \in Shows \ {"loading"}
    BY FieldRead
  <2>2. CASE Refresh \/ SetConfig \/ Tick \/ MirrorContext
    BY <2>1, <2>2, ComponentView DEF Refresh, SetConfig, Tick, MirrorContext, Current
  <2>3. CASE UNCHANGED vars
    BY <2>3 DEF vars, fixed, hook, Current, nativeVars
  <2>4. QED
    BY <2>2, <2>3
<1>2. Pending(Asking(f)) => Pending(Asking(f))'
  BY <1>1 DEF Pending, Asking, RefreshEvents, QueueEvents, ClosingEvents
<1>3. ASSUME NEW c, NEW g, Moves({}, {c}), Asked(c, g)
      PROVE  Known(f)'
  <2>1. PICK in : in = {c}
    OBVIOUS
  <2>2. Moves({}, in) /\ \A d \in in : Asked(d, g)
    BY <1>3, <2>1
  <2>3. QED
    BY <1>1, <1>2, <2>2, IssueReads
<1>4. CASE Refresh
  BY <1>3, <1>4, RefreshCalls
<1>5. CASE SetConfig \/ Tick
  BY <1>3, <1>5, SetConfigCalls, TickCalls
<1>6. CASE MirrorContext \/ UNCHANGED vars
  <2>1. Moves({}, {})
    BY <1>6, StayMoves DEF MirrorContext, vars, TypeInv, CallsOK
  <2>2. QED
    BY <1>1, <1>2, <2>1, IssueReads
<1>7. QED
  BY <1>4, <1>5, <1>6

\* The callback asks for a read of what the event tells of.
LEMMA HandleReads ==
  ASSUME TypeInv, NEW k \in DOMAIN inbox, Handle(k), NEW f \in Mirrored \cap ReadFields, Known(f)
  PROVE  Known(f)'
<1>1. hook' = hook /\ Current' = Current /\ world' = world /\ hook \in AllHooks
  BY InstanceTyped DEF Handle, hook, fixed, Current, nativeVars, TypeInv
<1>2. view'[f] = view[f]
  BY HandleView DEF ReadFields
<1>3. Moves({}, EventCalls(inbox[k])) /\ \A c \in EventCalls(inbox[k]) : Asked(c, inbox[k].to)
  BY HandleCalls
<1>4. ASSUME Pending(Asking(f)), ~\E c \in EventCalls(inbox[k]) : c.op = OpOf(f)
      PROVE  Pending(Asking(f))'
  <2>1. inbox[k].type \notin Asking(f)
    BY <1>1, <1>4, EventReads
  <2>2. QED
    BY <1>4, <2>1, HandleFacts, StillPending
<1>5. QED
  BY <1>1, <1>2, <1>3, <1>4, IssueReads

\* A change of another field.
LEMMA OtherReads ==
  ASSUME TypeInv, NativeChange, NEW f \in ReadFields, Known(f), world'[f] = world[f],
         f \in {"size", "items"} /\ Active => Active'
  PROVE  Known(f)'
<1>1. hook' = hook /\ Current' = Current /\ view' = view /\ calls' = calls
  BY NativeFrame
<1>2. Moves({}, {})
  BY <1>1, StayMoves DEF TypeInv, CallsOK
<1>3. Pending(Asking(f)) => Pending(Asking(f))'
  <2>1. CASE Announced
    <3>1. PICK type \in SyncEventType, status \in ConnectionStatus \cup {"none"} : Emit(type, status)
      BY <2>1 DEF Announced, Announce
    <3>2. Emitted(type, status)
      BY <3>1, EmitFacts
    <3>3. QED
      BY <3>2, PendingKept
  <2>2. CASE Untold
    <3>1. inbox' = inbox
      BY <2>2 DEF Untold, CycleReturns, CycleEndsSilently, ClearHistory, Reconfigured
    <3>2. QED
      BY <3>1 DEF Pending, Asking, RefreshEvents, QueueEvents, ClosingEvents
  <2>3. QED
    BY <2>1, <2>2, ChangeAnnounced
<1>4. QED
  BY <1>1, <1>2, <1>3, ReadKept

\* A change is told of, or the field is given up.
LEMMA ToldOf ==
  ASSUME TypeInv, NEW type \in SyncEventType, NEW status \in ConnectionStatus \cup {"none"},
         NEW fields, NEW told, NEW raced, Announce(type, status, fields, told, raced),
         NEW f \in ReadFields, f \in fields \ stale', type \in Asking(f)
  PROVE  Known(f)'
<1>1. Listening /\ Emitted(type, status)
  BY EmitFacts DEF Announce
<1>2. listeners # {}
  BY <1>1 DEF Listening
<1>3. Pending(Asking(f))'
  BY <1>1, <1>2, PendingKept
<1>4. QED
  BY <1>3 DEF Known, Underway

\* A native change is told of by an event the hook listens to.
LEMMA ChangeReads ==
  ASSUME TypeInv, NativeChange, NEW f \in ReadFields, f \notin stale', Known(f)
  PROVE  Known(f)'
<1>1. world \in World /\ world.syncing \in BOOLEAN /\ world.closing \in BOOLEAN
  BY DEF TypeInv, StateOK, World
<1>2. CASE ConnectionChanges
  <2>1. PICK status \in {"CONNECTED", "METERED", "DISCONNECTED"} :
          /\ world' = [world EXCEPT !.connection = status]
          /\ Announce("CONNECTION_CHANGED", status, {"connection"}, {}, {})
    BY <1>2 DEF ConnectionChanges
  <2>2. CASE f = "connection"
    <3>1. status \in ConnectionStatus \cup {"none"} /\ "CONNECTION_CHANGED" \in SyncEventType
      BY DEF ConnectionStatus, SyncEventType
    <3>2. "CONNECTION_CHANGED" \in Asking(f)
      BY <2>2 DEF Asking
    <3>3. QED
      BY <2>1, <2>2, <3>1, <3>2, ToldOf
  <2>3. CASE f # "connection"
    <3>1. world'[f] = world[f] /\ world'.syncing = world.syncing /\ world'.closing = world.closing
      BY <1>1, <2>1, <2>3 DEF World, ReadFields
    <3>2. QED
      BY <3>1, OtherReads DEF Active
  <2>4. QED
    BY <2>2, <2>3
<1>3. CASE QueueChanges
  <2>1. PICK type \in RefreshEvents \cup {"ITEM_RETRYING"} :
          /\ type \in QueueEvents \/ Active
          /\ world' = [world EXCEPT !.size = @ + 1, !.items = @ + 1]
          /\ Announce(type, "none", {"size", "items"}, {}, {})
    BY <1>3 DEF QueueChanges, Active
  <2>2. /\ world'.syncing = world.syncing /\ world'.closing = world.closing
        /\ f \notin {"size", "items"} => world'[f] = world[f]
    BY <1>1, <2>1 DEF World, ReadFields
  <2>3. CASE f \notin {"size", "items"}
    BY <2>2, <2>3, OtherReads
  <2>4. CASE f \in {"size", "items"} /\ type = "ITEM_RETRYING"
    <3>1. Active'
      BY <2>1, <2>2, <2>4 DEF Active, QueueEvents
    <3>2. QED
      BY <2>4, <3>1 DEF Known, Underway
  <2>5. CASE f \in {"size", "items"} /\ type \in RefreshEvents
    <3>1. type \in SyncEventType /\ "none" \in ConnectionStatus \cup {"none"}
      BY <2>5 DEF RefreshEvents, QueueEvents, ClosingEvents, SyncEventType
    <3>2. type \in Asking(f)
      BY <2>5 DEF Asking
    <3>3. QED
      BY <2>1, <2>5, <3>1, <3>2, ToldOf
  <2>6. QED
    BY <2>1, <2>3, <2>4, <2>5
<1>4. CASE CycleStarts
  <2>1. world' = [world EXCEPT !.syncing = TRUE] /\ ~Active
    BY <1>4 DEF CycleStarts, Active
  <2>2. world'[f] = world[f]
    BY <1>1, <2>1 DEF World, ReadFields
  <2>3. QED
    BY <2>1, <2>2, OtherReads
<1>5. CASE CycleCloses
  <2>1. PICK type \in ClosingEvents :
          Announce(type, "none", {"size", "items", "syncing", "last"}, {"syncing"},
                   When(Under("syncing") # {}, {"syncing"}))
    BY <1>5 DEF CycleCloses
  <2>2. CASE f \in {"size", "items", "last"}
    <3>1. type \in SyncEventType /\ "none" \in ConnectionStatus \cup {"none"}
      BY <2>1 DEF ClosingEvents, SyncEventType
    <3>2. type \in Asking(f) /\ f \in {"size", "items", "syncing", "last"}
      BY <2>1, <2>2 DEF Asking, RefreshEvents
    <3>3. QED
      BY <2>1, <3>1, <3>2, ToldOf
  <2>3. CASE f \notin {"size", "items", "last"}
    <3>1. world'[f] = world[f]
      BY <1>5, <2>3, ClosedWorld DEF ReadFields
    <3>2. QED
      BY <2>3, <3>1, OtherReads
  <2>4. QED
    BY <2>2, <2>3
<1>6. CASE CycleReturns
  <2>1. world' = [world EXCEPT !.closing = FALSE, !.syncing = FALSE] /\ ~Active
    BY <1>6 DEF CycleReturns, Active
  <2>2. world'[f] = world[f]
    BY <1>1, <2>1 DEF World, ReadFields
  <2>3. QED
    BY <2>1, <2>2, OtherReads
<1>7. CASE PauseChanges
  <2>1. PICK paused \in BOOLEAN : world' = [world EXCEPT !.paused = paused]
    BY <1>7 DEF PauseChanges
  <2>2. world'[f] = world[f] /\ world'.syncing = world.syncing /\ world'.closing = world.closing
    BY <1>1, <2>1 DEF World, ReadFields
  <2>3. QED
    BY <2>2, OtherReads DEF Active
<1>8. CASE Reconfigured
  <2>1. world' = [world EXCEPT !.config = @ + 1] /\ f # "config"
    BY <1>8 DEF Reconfigured
  <2>2. world'[f] = world[f] /\ world'.syncing = world.syncing /\ world'.closing = world.closing
    BY <1>1, <2>1 DEF World, ReadFields
  <2>3. QED
    BY <2>2, OtherReads DEF Active
<1>9. CASE CycleEndsSilently
  <2>1. f \notin {"size", "items", "last"}
    BY <1>9, SilentWorld
  <2>2. world'[f] = world[f]
    BY <1>9, <2>1, SilentWorld DEF ReadFields
  <2>3. QED
    BY <2>1, <2>2, OtherReads
<1>10. CASE ClearHistory
  <2>1. world' = [world EXCEPT !.last = 0] /\ f # "last"
    BY <1>10 DEF ClearHistory
  <2>2. world'[f] = world[f] /\ world'.syncing = world.syncing /\ world'.closing = world.closing
    BY <1>1, <2>1 DEF World, ReadFields
  <2>3. QED
    BY <2>2, OtherReads DEF Active
<1>11. QED
  BY <1>2, <1>3, <1>4, <1>5, <1>6, <1>7, <1>8, <1>9, <1>10 DEF NativeChange

\* What a change gives up stays so until it is read.
LEMMA ChangeStale ==
  ASSUME NativeChange, NEW f \in ReadFields, f \notin stale'
  PROVE  f \notin stale
  BY DEF NativeChange, ConnectionChanges, QueueChanges, CycleStarts, CycleCloses, CycleReturns,
         CycleEndsSilently, ClearHistory, PauseChanges, Reconfigured, Announce, history, ReadFields

\* The only read under way is replaced by what it has become.
LEMMA AloneReplaced ==
  ASSUME NEW c, Alone(c), NEW d, Moves({c}, {d}), c # d, d.op = c.op
  PROVE  Alone(d)' /\ d \in BagToSet(calls')
<1>1. Under(c.op) = {c} /\ calls[c] = 1
  BY DEF Alone
<1>2. d \notin BagToSet(calls)
  BY <1>1 DEF Under
<1>3. d \in BagToSet(calls') /\ calls'[d] = 1 /\ c \notin BagToSet(calls')
  BY <1>1, <1>2 DEF Moves
<1>4. \A e \in BagToSet(calls') : e.op = d.op => e = d
  BY <1>1, <1>3 DEF Moves, Under
<1>5. QED
  BY <1>3, <1>4 DEF Alone, Under

\* A read that is the only one of its kind knows its answer, whatever came before.
LEMMA ReadReads ==
  ASSUME TypeInv, NEW c \in BagToSet(calls), NEW part, NEW d, HasRead(c, part, d),
         hook' = hook, Current' = Current, view' = view, inbox' = inbox,
         NEW f \in ReadFields, f \notin stale', f \notin stale => Known(f)
  PROVE  Known(f)'
<1>1. /\ c.op \in ReadOps /\ c.op \in CallOps /\ part \in Parts(c.op) /\ part \in c.todo /\ Moves({c}, {d}) /\ c # d
      /\ d.op = c.op /\ d.by = c.by /\ d.todo = c.todo \ {part} /\ d.ok = c.ok /\ c.ok
      /\ d \in BagToSet(calls') /\ world' = world
  BY FromBag DEF HasRead, ReadInPart, CallOps, Moves, CallOK
<1>2. f # "syncing" /\ f \in Parts(OpOf(f)) /\ OpOf(f) # "configure"
      /\ \A op \in CallOps : f \in Parts(op) => op = OpOf(f)
  BY FieldRead
<1>3. CASE part = f
  <2>1. Alone(c) /\ c.by = Current
    BY <1>2, <1>3 DEF HasRead
  <2>2. Alone(d)'
    BY <1>1, <2>1, AloneReplaced
  <2>3. d.got[f] = world[f] /\ f \in DOMAIN d.got
    BY <1>3 DEF HasRead, ReadInPart
  <2>4. d.op = OpOf(f)
    BY <1>1, <1>2, <1>3
  <2>5. Answered(f)'
    BY <1>1, <2>1, <2>2, <2>3, <2>4 DEF Answered
  <2>6. QED
    BY <2>5 DEF Known
<1>4. CASE part # f
  <2>1. Known(f)
    BY <1>4 DEF HasRead
  <2>2. Pending(Asking(f)) => Pending(Asking(f))'
    BY DEF Pending, Asking, RefreshEvents, QueueEvents, ClosingEvents
  <2>3. Active => Active'
    BY <1>1 DEF Active
  <2>4. CASE c.op # OpOf(f)
    <3>1. c.op # "configure"
      BY <1>1 DEF ReadOps
    <3>2. QED
      BY <1>1, <2>1, <2>2, <2>3, <2>4, <3>1, ReadKept
  <2>5. CASE c.op = OpOf(f) /\ Underway(f)
    <3>1. CASE Pending(Asking(f)) \/ (f \in {"size", "items"} /\ Active)
      BY <2>2, <2>3, <3>1 DEF Known, Underway
    <3>2. ASSUME NEW e \in BagToSet(calls), e.op = OpOf(f), f \in e.todo
          PROVE  Known(f)'
      <4>1. CASE e = c
        <5>1. f \in d.todo
          BY <1>1, <1>4, <3>2, <4>1
        <5>2. QED
          BY <1>1, <2>5, <5>1 DEF Known, Underway
      <4>2. CASE e # c
        <5>1. e \in BagToSet(calls')
          BY <1>1, <4>2 DEF Moves
        <5>2. QED
          BY <3>2, <5>1 DEF Known, Underway
      <4>3. QED
        BY <4>1, <4>2
    <3>3. ASSUME f = "config", hook = "SyncProvider", NEW e \in BagToSet(calls), e.op = "configure"
          PROVE  Known(f)'
      <4>1. e \in BagToSet(calls')
        BY <1>1, <1>2, <2>5, <3>3 DEF Moves
      <4>2. QED
        BY <3>3, <4>1 DEF Known, Underway
    <3>4. QED
      BY <2>5, <3>1, <3>2, <3>3 DEF Underway
  <2>6. CASE c.op = OpOf(f) /\ Answered(f)
    <3>1. c \in Under(OpOf(f))
      BY <2>6 DEF Under
    <3>2. PICK e \in BagToSet(calls) : /\ Alone(e) /\ e.op = OpOf(f) /\ e.by = Current /\ e.ok
                                       /\ f \in DOMAIN e.got /\ e.got[f] = world[f]
      BY <2>6, <3>1 DEF Answered
    <3>3. e = c
      BY <3>1, <3>2 DEF Alone
    <3>4. Alone(d)'
      BY <1>1, <3>2, <3>3, AloneReplaced
    <3>5. f \in DOMAIN d.got /\ d.got[f] = world[f]
      BY <1>4, <3>2, <3>3 DEF HasRead, ReadInPart
    <3>6. Answered(f)'
      BY <1>1, <2>6, <3>2, <3>3, <3>4, <3>5 DEF Answered
    <3>7. QED
      BY <3>6 DEF Known
  <2>7. QED
    BY <2>1, <2>4, <2>5, <2>6 DEF Known
<1>5. QED
  BY <1>3, <1>4

\* The calls native deals with.
LEMMA ExecuteReads ==
  ASSUME TypeInv, NEW c \in BagToSet(calls), Execute(c) \/ Fail(c),
         NEW f \in ReadFields, f \notin stale', f \notin stale => Known(f)
  PROVE  Known(f)'
<1>1. hook' = hook /\ Current' = Current /\ view' = view /\ inbox' = inbox
  BY ExecuteFrame
<1>2. /\ f \in Parts(OpOf(f)) /\ f \in Shows /\ OpOf(f) \in ReadOps
      /\ OpOf(f) \notin {"add", "remove", "configure", "enable", "disable", "flush"}
  BY FieldRead
<1>3. Pending(Asking(f)) => Pending(Asking(f))'
  BY <1>1 DEF Pending, Asking, RefreshEvents, QueueEvents, ClosingEvents
<1>4. world \in World
  BY DEF TypeInv, StateOK
<1>5. ASSUME NEW part, NEW d, HasRead(c, part, d)
      PROVE  Known(f)'
  BY <1>1, <1>5, ReadReads
<1>6. ASSUME NEW d, HasWritten(c, d)
      PROVE  Known(f)'
  <2>1. /\ Moves({c}, {d}) /\ d.op = c.op /\ c.op # OpOf(f) /\ f \notin stale
        /\ c.op = "configure" => f # "config"
    BY <1>2, <1>6 DEF HasWritten, When
  <2>2. world'[f] = world[f] /\ world'.syncing = world.syncing /\ world'.closing = world.closing
    BY <1>4, <1>6, <2>1 DEF HasWritten, World, ReadFields
  <2>3. Active => Active'
    BY <2>2 DEF Active
  <2>4. QED
    BY <1>1, <1>3, <2>1, <2>2, <2>3, ReadKept
<1>7. CASE HasDropped(c)
  <2>1. Moves({c}, {}) /\ c.op # OpOf(f) /\ c.op # "configure" /\ f \notin stale
    BY <1>2, <1>7 DEF HasDropped, Swallowed
  <2>2. world'[f] = world[f] /\ world'.syncing = world.syncing /\ world'.closing = world.closing
    BY <1>4, <1>7 DEF HasDropped, World, ReadFields
  <2>3. Active => Active'
    BY <2>2 DEF Active
  <2>4. QED
    BY <1>1, <1>3, <2>1, <2>2, <2>3, ReadKept
<1>8. ASSUME NEW d, HasFailed(c, d)
      PROVE  Known(f)'
  <2>1. /\ Moves({c}, {d}) /\ d.op = c.op /\ c.op # OpOf(f) /\ f \notin stale /\ world' = world
    BY <1>2, <1>8 DEF HasFailed
  <2>2. Active => Active'
    BY <2>1 DEF Active
  <2>3. QED
    BY <1>1, <1>3, <2>1, <2>2, ReadKept
<1>9. QED
  BY <1>5, <1>6, <1>7, <1>8, Executes

\* The read that answered is shown.
LEMMA ReadSettled ==
  ASSUME TypeInv, LoadInv, LastInv, Up, NEW c \in BagToSet(calls), SettleRead(c),
         NEW f \in (Mirrored \cap ReadFields) \ stale, c.op = OpOf(f), Known(f)
  PROVE  Known(f)'
<1>1. /\ CallOK(c) /\ StateOK /\ Done(c) /\ c.op \in ReadOps /\ Settle(c)
      /\ Moves({c}, AfterRead(c)) /\ \A d \in AfterRead(c) : d.op \in {"add", "enable"}
  BY FromBag, ReadSettles DEF TypeInv, SettleRead, Settle
<1>2. hook' = hook /\ Current' = Current /\ world' = world /\ inbox' = inbox
  BY <1>1, SettleFrame DEF nativeVars
<1>3. f \in Parts(OpOf(f)) /\ OpOf(f) \notin {"add", "enable", "configure"}
  BY FieldRead
<1>4. CASE Underway(f)
  <2>1. CASE Pending(Asking(f))
    BY <1>2, <2>1 DEF Pending, Asking, RefreshEvents, QueueEvents, ClosingEvents, Known, Underway
  <2>2. ASSUME NEW e \in BagToSet(calls), e.op = OpOf(f), f \in e.todo
        PROVE  Known(f)'
    <3>1. e # c
      BY <1>1, <2>2 DEF Done
    <3>2. e \in BagToSet(calls')
      BY <1>1, <3>1 DEF Moves
    <3>3. QED
      BY <2>2, <3>2 DEF Known, Underway
  <2>3. ASSUME f = "config", hook = "SyncProvider", NEW e \in BagToSet(calls), e.op = "configure"
        PROVE  Known(f)'
    <3>1. e \in BagToSet(calls')
      BY <1>1, <1>3, <2>3 DEF Moves
    <3>2. QED
      BY <1>2, <2>3, <3>1 DEF Known, Underway
  <2>4. CASE f \in {"size", "items"} /\ Active
    BY <1>2, <2>4 DEF Known, Underway, Active
  <2>5. QED
    BY <1>4, <2>1, <2>2, <2>3, <2>4 DEF Underway
<1>5. CASE Answered(f)
  <2>1. c \in Under(OpOf(f))
    BY DEF Under
  <2>2. PICK e \in BagToSet(calls) : /\ Alone(e) /\ e.op = OpOf(f) /\ e.by = Current /\ e.ok
                                     /\ f \in DOMAIN e.got /\ e.got[f] = world[f]
    BY <1>5, <2>1 DEF Answered
  <2>3. e = c
    BY <2>1, <2>2 DEF Alone
  <2>4. ~Cancelled(c.by)
    BY <2>2, <2>3 DEF Cancelled, Up, LoadInv
  <2>5. view' = ViewAfter(c)
    BY <2>4 DEF SettleRead
  <2>6. \/ ViewAfter(c)[f] = c.got[f]
        \/ f = "last" /\ c.got[f] = 0 /\ ViewAfter(c)[f] = view[f]
    BY <1>1, <1>3, <2>2, <2>3, ReadShown
  <2>7. view'[f] = world[f]
    <3>1. CASE ViewAfter(c)[f] = c.got[f]
      BY <2>2, <2>3, <2>5, <3>1
    <3>2. CASE f = "last" /\ c.got[f] = 0 /\ ViewAfter(c)[f] = view[f]
      BY <2>2, <2>3, <2>5, <3>2 DEF LastInv
    <3>3. QED
      BY <2>6, <3>1, <3>2
  <2>8. Under(OpOf(f))' = {}
    <3>1. c \notin BagToSet(calls')
      BY <1>1, <2>2, <2>3 DEF Moves, Alone
    <3>2. \A d \in BagToSet(calls') : d.op # OpOf(f)
      BY <1>1, <1>3, <2>2, <2>3, <3>1 DEF Moves, Alone, Under
    <3>3. QED
      BY <3>2 DEF Under
  <2>9. QED
    BY <1>2, <2>7, <2>8 DEF Known, Answered
<1>6. QED
  BY <1>4, <1>5 DEF Known

\* The continuations.
LEMMA SettleReads ==
  ASSUME TypeInv, LoadInv, LastInv, Up, NEW c \in BagToSet(calls), Settle(c),
         NEW f \in (Mirrored \cap ReadFields) \ stale, Known(f)
  PROVE  Known(f)'
<1>1. CASE SettleRead(c) /\ c.op = OpOf(f)
  BY <1>1, ReadSettled
<1>2. CASE ~(SettleRead(c) /\ c.op = OpOf(f))
  <2>1. /\ f \in Shows \ {"loading"} /\ OpOf(f) \notin {"add", "remove", "configure", "enable"}
        /\ \A op \in CallOps : f \in Parts(op) => op = OpOf(f)
    BY FieldRead
  <2>2. hook' = hook /\ Current' = Current /\ world' = world /\ inbox' = inbox
    BY SettleFrame DEF nativeVars
  <2>3. c.op \in CallOps
    BY FromBag, PartsKnown
  <2>4. view'[f] = view[f]
    BY <1>2, <2>1, <2>3, SettleView
  <2>5. Active => Active'
    BY <2>2 DEF Active
  <2>6. Pending(Asking(f)) => Pending(Asking(f))'
    BY <2>2 DEF Pending, Asking, RefreshEvents, QueueEvents, ClosingEvents
  <2>7. ASSUME NEW in, Moves({c}, in), c.op # OpOf(f), \A d \in in : Asked(d, c.by),
               hook = "SyncProvider" /\ c.op = "configure" => \E d \in in : d.op \in {"configure", "config"}
        PROVE  Known(f)'
    <3>1. \A d \in in : d.op = OpOf(f) => f \in d.todo
      BY <2>7, AskedRead
    <3>2. QED
      BY <2>2, <2>4, <2>5, <2>6, <2>7, <3>1, ReadKept
  <2>8. CASE SettleRead(c)
    <3>1. c.op # "configure" /\ c.op # OpOf(f)
      BY <1>2, <2>8 DEF SettleRead, ReadOps
    <3>2. QED
      BY <2>7, <2>8, <3>1, ReadSettles
  <2>9. CASE SettleConfigure(c)
    <3>1. c.op # OpOf(f)
      BY <2>1, <2>9 DEF SettleConfigure
    <3>2. hook = "SyncProvider" => \E d \in AfterConfigure(c) : d.op \in {"configure", "config"}
      BY DEF AfterConfigure, When, NewCall
    <3>3. QED
      BY <2>7, <2>9, <3>1, <3>2, ConfigureSettles
  <2>10. CASE SettleEnable(c)
    <3>1. c.op # OpOf(f) /\ c.op # "configure"
      BY <2>1, <2>10 DEF SettleEnable
    <3>2. QED
      BY <2>7, <2>10, <3>1, EnableSettles
  <2>11. CASE SettleAdd(c)
    <3>1. c.op # OpOf(f) /\ c.op # "configure"
      BY <2>1, <2>11 DEF SettleAdd
    <3>2. QED
      BY <2>7, <2>11, <3>1, AddSettles
  <2>12. CASE FlushUnlessOffline(c) \/ SafeFlush(c)
    BY <2>12 DEF FlushUnlessOffline, SafeFlush, Mirrored
  <2>13. QED
    BY <2>8, <2>9, <2>10, <2>11, <2>12 DEF Settle
<1>3. QED
  BY <1>1, <1>2

\* ReadInv is inductive.
LEMMA StepReads ==
  ASSUME TypeInv, LoadInv, LastInv, ReadInv, [Next]_vars
  PROVE  ReadInv'
<1>1. hook' = hook /\ available' = available /\ Mirrored' = Mirrored
  BY HookFixed DEF Mirrored
<1>2. SUFFICES ASSUME Up', available, NEW f \in Mirrored \cap ReadFields, f \notin stale'
               PROVE  Known(f)'
  BY <1>1 DEF ReadInv
<1>3. Up /\ f \notin stale => Known(f)
  BY <1>2 DEF ReadInv
<1>4. CASE Mount
  BY <1>2, <1>4, MountReads
<1>5. CASE Unmount
  <2>1. ~Up'
    BY <1>5, UnmountCalls DEF Up
  <2>2. QED
    BY <1>2, <2>1
<1>6. CASE Refresh \/ SetConfig \/ Tick \/ MirrorContext \/ UNCHANGED vars
  <2>1. Up /\ stale' = stale
    BY <1>2, <1>6 DEF Refresh, SetConfig, Tick, MirrorContext, Up, Current, vars, history
  <2>2. QED
    BY <1>2, <1>3, <1>6, <2>1, CallMadeReads
<1>7. CASE NativeChange
  <2>1. Up /\ f \notin stale
    BY <1>2, <1>7, ChangeStale, NativeFrame DEF Up
  <2>2. QED
    BY <1>2, <1>3, <1>7, <2>1, ChangeReads
<1>8. ASSUME NEW c \in BagToSet(calls), Execute(c) \/ Fail(c)
      PROVE  Known(f)'
  <2>1. Up
    BY <1>2, <1>8, ExecuteFrame
  <2>2. QED
    BY <1>2, <1>3, <1>8, <2>1, ExecuteReads
<1>9. ASSUME NEW c \in BagToSet(calls), Settle(c)
      PROVE  Known(f)'
  <2>1. Up /\ f \notin stale
    BY <1>2, <1>9, SettleFrame, UpSettles
  <2>2. QED
    BY <1>2, <1>3, <1>9, <2>1, SettleReads
<1>10. ASSUME NEW k \in DOMAIN inbox, Handle(k)
       PROVE  Known(f)'
  <2>1. Up /\ f \notin stale
    BY <1>2, <1>10 DEF Handle, Up, Current, history
  <2>2. QED
    BY <1>2, <1>3, <1>10, <2>1, HandleReads
<1>11. QED
  BY <1>4, <1>5, <1>6, <1>7, <1>8, <1>9, <1>10 DEF Next

-----------------------------------------------------------------------------
(***************************************************************************)
(* At rest the hook shows what native holds.                               *)
(***************************************************************************)
\* Before the first run nothing is shown and nothing is claimed.
LEMMA InitMirrors ==
  ASSUME Init
  PROVE  LastInv /\ SyncingInv /\ PausedInv /\ ReadInv
<1>1. BagToSet(calls) = {} /\ inbox = <<>> /\ effects = <<>>
  BY DEF Init, BagToSet, EmptyBag, SetToBag
<1>2. ~Up
  BY <1>1 DEF Up, Current
<1>3. /\ view = InitialView /\ world.last = 0 /\ ~world.closing /\ ~world.paused
  BY DEF Init
<1>4. /\ view.last = 0 /\ ~view.syncing /\ ~view.paused
  BY <1>3 DEF InitialView
<1>5. DOMAIN inbox = {}
  BY <1>1
<1>6. LastInv /\ ReadInv
  BY <1>1, <1>2, <1>4 DEF LastInv, ReadInv
<1>7. SyncingInv
  BY <1>1, <1>3, <1>4, <1>5 DEF SyncingInv, LoweredInTime
<1>8. view.paused = world.paused
  BY DEF Init, InitialView
<1>9. PausedInv
  BY <1>5, <1>8 DEF PausedInv
<1>10. QED
  BY <1>6, <1>7, <1>9

\* The four invariants hold in every reachable state.
LEMMA MirrorsAlways == Spec => [](LastInv /\ SyncingInv /\ PausedInv /\ ReadInv)
<1>1. TypeInv /\ LoadInv /\ LastInv /\ SyncingInv /\ PausedInv /\ ReadInv /\ [Next]_vars
        => (LastInv /\ SyncingInv /\ PausedInv /\ ReadInv)'
  BY StepLast, StepSyncing, StepPaused, StepReads
<1>2. QED
  BY <1>1, InitMirrors, TypesAlways, LoadsAlways, PTL DEF Spec

\* With nothing under way what is known is shown.
LEMMA MirrorsImplied ==
  ASSUME TypeInv, SyncingInv, PausedInv, ReadInv
  PROVE  MirrorsAtRest
<1>1. SUFFICES ASSUME AtRest, Up, available, NEW f \in Mirrored \ stale
               PROVE  Shown(f) = world[f]
  BY DEF MirrorsAtRest
<1>2. BagToSet(calls) = {} /\ DOMAIN inbox = {} /\ ~world.syncing
  BY <1>1 DEF AtRest, BagToSet, EmptyBag, SetToBag
<1>3. ~Active /\ \A types : ~Pending(types)
  BY <1>2 DEF Active, Pending
<1>4. hook \in AllHooks
  BY InstanceTyped DEF TypeInv
<1>5. f \in ReadFields \cup {"syncing", "paused"}
  BY <1>4 DEF Mirrored, ReadFields, AllHooks
<1>6. view[f] = world[f]
  <2>1. CASE f \in ReadFields
    <3>1. Known(f)
      BY <1>1, <2>1 DEF ReadInv
    <3>2. ~Underway(f)
      BY <1>2, <1>3 DEF Underway
    <3>3. QED
      BY <1>2, <3>1, <3>2 DEF Known, Answered
  <2>2. CASE f = "syncing"
    <3>1. ~view.syncing
      BY <1>1, <1>3, <2>2 DEF SyncingInv, LoweredInTime
    <3>2. view.syncing \in BOOLEAN /\ world.syncing \in BOOLEAN
      BY DEF TypeInv, StateOK, View, World
    <3>3. QED
      BY <1>2, <2>2, <3>1, <3>2
  <2>3. CASE f = "paused"
    BY <1>1, <1>3, <2>3 DEF PausedInv
  <2>4. QED
    BY <1>5, <2>1, <2>2, <2>3
<1>7. CASE hook = "SyncProvider"
  <2>1. f = "config" /\ local = view.config
    BY <1>1, <1>7 DEF Mirrored, AtRest
  <2>2. QED
    BY <1>6, <1>7, <2>1 DEF Shown
<1>8. CASE hook # "SyncProvider"
  BY <1>6, <1>8 DEF Shown
<1>9. QED
  BY <1>7, <1>8

\* With nothing under way and no cycle running a hook shows what native holds, but for the
\* fields in stale (MirrorsAtRest): the reads of the effects and the event lists of all hooks.
THEOREM MirrorsSettled == Spec => []MirrorsAtRest
  BY TypesAlways, MirrorsAlways, MirrorsImplied, PTL

=============================================================================
