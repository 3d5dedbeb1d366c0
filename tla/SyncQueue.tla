----------------------------- MODULE SyncQueue -----------------------------
(***************************************************************************)
(* The persisted queue of the Android engine: the rows of sync_items       *)
(* (SyncItemEntity) and what each statement of SyncItemDao, as             *)
(* SyncQueueStorage calls it, does to them.  The operators are pure: they  *)
(* take the table q and return the next table, so that every module that   *)
(* touches the queue shares one reading of the SQL.  The Core Data rows    *)
(* of iOS have the same fields and are fetched in the same order.          *)
(*                                                                         *)
(* q is a function on Item, the ids the generator may ever hand out.  An   *)
(* id is a ULID and is never reused, so a row passes through "NEW" (not    *)
(* inserted yet), the three stored statuses, and "GONE" (deleted).  A row  *)
(* that is not stored keeps no data.                                       *)
(***************************************************************************)
EXTENDS Integers, FiniteSets

CONSTANTS
  Item,   \* the item ids
  Weight  \* priorityWeight of each item: HIGH 0, NORMAL 1, LOW 2

ASSUME WeightAssumption == Weight \in [Item -> 0..2]

StoredStatus == {"PENDING", "IN_FLIGHT", "FAILED"}

Row == [status      : StoredStatus \cup {"NEW", "GONE"},
        attempts    : Nat,
        nextRetryAt : Nat,
        createdAt   : Nat]

NewRow  == [status |-> "NEW",  attempts |-> 0, nextRetryAt |-> 0, createdAt |-> 0]
GoneRow == [status |-> "GONE", attempts |-> 0, nextRetryAt |-> 0, createdAt |-> 0]

Stored(q)   == {i \in Item : q[i].status \in StoredStatus}
Pending(q)  == {i \in Item : q[i].status = "PENDING"}
InFlight(q) == {i \in Item : q[i].status = "IN_FLIGHT"}
-----------------------------------------------------------------------------
\* insert / insertBatch of the entities toEntity builds: a fresh row has spent
\* no attempt and cools for nobody.
Insert(q, ids, now) ==
  [i \in Item |-> IF i \in ids
                  THEN [status      |-> "PENDING", attempts  |-> 0,
                        nextRetryAt |-> 0,         createdAt |-> now]
                  ELSE q[i]]

\* deleteById and clear: deleting an id that is not stored changes nothing.
Delete(q, ids) ==
  [i \in Item |-> IF i \in ids /\ i \in Stored(q) THEN GoneRow ELSE q[i]]

\* An upsert in place of the update.
BugUpdateStatus(q, id, status, attempts, nextRetryAt) ==
  [q EXCEPT ![id] = [status      |-> status,      attempts  |-> attempts,
                     nextRetryAt |-> nextRetryAt, createdAt |-> q[id].createdAt]]

\* UPDATE ... WHERE id = :id: overwrites whatever status the row has, and
\* matches no row at all once the id was deleted.
UpdateStatus(q, id, status, attempts, nextRetryAt) ==
  IF id \in Stored(q)
  THEN [q EXCEPT ![id] = [status      |-> status,      attempts  |-> attempts,
                          nextRetryAt |-> nextRetryAt, createdAt |-> q[id].createdAt]]
  ELSE q

\* A delivered row kept under a status of its own.
BugMarkSucceeded(q, id) == UpdateStatus(q, id, "SUCCEEDED", 0, 0)

MarkSucceeded(q, id)                    == Delete(q, {id})
MarkRetry(q, id, attempts, nextRetryAt) == UpdateStatus(q, id, "PENDING", attempts, nextRetryAt)
MarkFailed(q, id, attempts)             == UpdateStatus(q, id, "FAILED", attempts, 0)

\* Every IN_FLIGHT row back to PENDING; attempts and cooldown are kept.
ResetInFlight(q) ==
  [i \in Item |-> IF i \in InFlight(q) THEN [q[i] EXCEPT !.status = "PENDING"] ELSE q[i]]
-----------------------------------------------------------------------------
\* ORDER BY priorityWeight ASC, createdAt ASC.  Rows that tie come in any order.
Precedes(q, i, j) ==
  \/ Weight[i] < Weight[j]
  \/ Weight[i] = Weight[j] /\ q[i].createdAt < q[j].createdAt

Claimable(q, now) == {i \in Pending(q) : q[i].nextRetryAt <= now}

\* The sets of rows selectClaimable may return under LIMIT :limit.
Claims(q, now, limit) ==
  LET due == Claimable(q, now)
  IN {S \in SUBSET due :
        /\ Cardinality(S) <= limit
        /\ S # due => Cardinality(S) = limit
        /\ \A i \in due \ S, j \in S : ~Precedes(q, i, j)}

\* The rows that may come first in the list claimPending returned.
Heads(q, claimed) == {i \in claimed : \A j \in claimed : ~Precedes(q, j, i)}

\* The bulk flip that makes the write half of claimPending.
MarkInFlight(q, ids) ==
  [i \in Item |-> IF i \in ids THEN [q[i] EXCEPT !.status = "IN_FLIGHT"] ELSE q[i]]
=============================================================================
