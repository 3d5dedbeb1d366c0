------------------------------- MODULE MCHooks -------------------------------
(***************************************************************************)
(* Instances of Hooks for TLC.                                             *)
(***************************************************************************)
EXTENDS Hooks

Of(h, effectsMax, changesMax, faultsMax) ==
  [hook |-> h, effects |-> effectsMax, changes |-> changesMax, faults |-> faultsMax]

\* The more calls a hook starts with, the less happens to it.
MCInstances ==
  {Of("useConnection", 1, 2, 0), Of("useConnection", 2, 1, 1), Of("useSyncStatus", 2, 1, 1),
   Of("useSyncStatus", 2, 2, 0), Of("useSyncStatus", 1, 3, 1), Of("useSyncQueue", 2, 0, 1),
   Of("useSyncQueue", 1, 2, 0), Of("useSyncQueue", 1, 1, 1), Of("useOfflineQueue", 1, 1, 0),
   Of("useSyncSnapshot", 1, 1, 0), Of("useSyncEvents", 2, 2, 1), Of("useSyncConfig", 2, 1, 0),
   Of("useSyncConfig", 1, 2, 1), Of("useAutoSync", 2, 1, 1), Of("useAutoSync", 1, 2, 1),
   Of("SyncProvider", 2, 0, 0), Of("SyncProvider", 1, 2, 1)}

\* Which connection a device starts with matters to two hooks; the others start connected.
InitiallyConnected ==
  changes = 0 /\ hook \notin {"useConnection", "useAutoSync"} => world.connection = "CONNECTED"
=============================================================================
