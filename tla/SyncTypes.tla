------------------------------ MODULE SyncTypes ------------------------------
(***************************************************************************)
(* The value sets the JavaScript side shares with the native bridge        *)
(* (src/types, src/errors).  A value is its wire string.                   *)
(***************************************************************************)
EXTENDS Integers, Sequences

HttpMethod == {"GET", "POST", "PUT", "PATCH", "DELETE"}

SyncPriority == {"HIGH", "NORMAL", "LOW"}

BackoffStrategy == {"LINEAR", "EXPONENTIAL", "FIBONACCI"}

ConnectionStatus == {"CONNECTED", "DISCONNECTED", "METERED", "UNKNOWN"}

SyncEventType ==
  {"ITEM_ENQUEUED", "ITEM_REMOVED", "SYNC_STARTED", "SYNC_PROGRESS", "SYNC_SUCCEEDED",
   "SYNC_FAILED", "ITEM_SUCCEEDED", "ITEM_FAILED", "ITEM_RETRYING", "QUEUE_CLEARED",
   "CONNECTION_CHANGED", "PAUSED", "RESUMED"}

\* The codes a rejection can carry; the others are reported on item events only.
SyncErrorCode ==
  {"NETWORK_ERROR", "INVALID_PAYLOAD", "NATIVE_MODULE_UNAVAILABLE",
   "BACKGROUND_TASK_REGISTRATION_FAILED", "INVALID_URL", "DRAIN_ALREADY_ACTIVE"}
=============================================================================
