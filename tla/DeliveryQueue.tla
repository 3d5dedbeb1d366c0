---------------------------- MODULE DeliveryQueue ----------------------------
(***************************************************************************)
(* What the engine promises about one item, with no cycles, callers, locks *)
(* or tables: at-least-once delivery under a retry budget.                 *)
(*                                                                         *)
(* An item is queued, sent by at most one dispatch at a time, and leaves   *)
(* the queue only because the server accepted it or the consumer removed   *)
(* it.  A dispatch that ends is accounted for once: it costs an attempt,   *)
(* it is refunded, or its outcome is lost and the item is queued again.    *)
(* A failed item stays failed, a removed one never comes back.             *)
(***************************************************************************)
EXTENDS Naturals

CONSTANT Item

VARIABLES
  state,   \* where each item is in its life
  spent    \* attempts charged to each item still in the queue

dqVars == <<state, spent>>

States == {"new", "queued", "sending", "failed", "gone"}

Init ==
  /\ state = [i \in Item |-> "new"]
  /\ spent = [i \in Item |-> 0]

Move(i, to, cost) ==
  /\ state' = [state EXCEPT ![i] = to]
  /\ spent' = [spent EXCEPT ![i] = @ + cost]

Submit(ids) ==
  /\ \A i \in ids : state[i] = "new"
  /\ state' = [i \in Item |-> IF i \in ids THEN "queued" ELSE state[i]]
  /\ UNCHANGED spent

Remove(ids) ==
  /\ \A i \in ids : state[i] \in {"queued", "sending", "failed"}
  /\ state' = [i \in Item |-> IF i \in ids THEN "gone" ELSE state[i]]
  /\ spent' = [i \in Item |-> IF i \in ids THEN 0 ELSE spent[i]]

Send(i) == state[i] = "queued" /\ Move(i, "sending", 0)

Deliver(i) ==
  /\ state[i] = "sending"
  /\ state' = [state EXCEPT ![i] = "gone"]
  /\ spent' = [spent EXCEPT ![i] = 0]

Retry(i) == state[i] = "sending" /\ \E cost \in {0, 1} : Move(i, "queued", cost)

\* Out of budget, with or without a last dispatch.
Fail(i) ==
  \/ state[i] = "sending" /\ Move(i, "failed", 1)
  \/ state[i] = "queued"  /\ Move(i, "failed", 0)

\* The process died: what it was sending is queued again, and the attempts that had
\* been counted before they ended stay spent.
Die ==
  /\ state' = [i \in Item |-> IF state[i] = "sending" THEN "queued" ELSE state[i]]
  /\ \E charged \in SUBSET {i \in Item : state[i] = "sending"} :
       spent' = [i \in Item |-> IF i \in charged THEN spent[i] + 1 ELSE spent[i]]

Next ==
  \/ \E ids \in SUBSET Item : Submit(ids) \/ Remove(ids)
  \/ \E i \in Item : Send(i) \/ Deliver(i) \/ Retry(i) \/ Fail(i)
  \/ Die

Spec == Init /\ [][Next]_dqVars
=============================================================================
