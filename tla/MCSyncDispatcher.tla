-------------------------- MODULE MCSyncDispatcher --------------------------
(***************************************************************************)
(* Instances of SyncDispatcher for TLC.  InFocus joins two in one run, and *)
(* the budget tells which one a behaviour is in.                           *)
(*                                                                         *)
(* Wide: both items, every caller, one budget, one fault (a death may      *)
(* strike several cycles; from the fault on, one caller at a time and not  *)
(* paused), retries due at once and a clock that stands still.             *)
(*                                                                         *)
(* Long: one item and one caller at a time through many cycles, two faults *)
(* or ticks (not paused after the second), and retries that cool.          *)
(***************************************************************************)
EXTENDS SyncDispatcher, TLC

CONSTANTS i1, i2, c1, c2

\* Two items of different priority: the order of a claim matters.
MCWeight == i1 :> 0 @@ i2 :> 2
MCWeightOne == i1 :> 1

\* Callers are interchangeable; items are not, their priorities differ.
CallerSymmetry == Permutations(Caller)

WideBudget == 2
WideFaults == 1
LongSteps  == 2

InWide == config.budget = WideBudget

OneItem   == Stored(rows') \subseteq {i2}
OneCaller == Cardinality({c \in Caller : pc'[c] # "idle"}) <= 1

Wide ==
  /\ now' = 0 /\ faults' <= WideFaults
  /\ faults' > 0 => ~paused' /\ OneCaller
  /\ \A i \in Item : rows'[i].nextRetryAt \in {0, CredentialHold}

Long ==
  /\ OneItem /\ OneCaller
  /\ now' + faults' <= LongSteps
  /\ now' + faults' = LongSteps => ~paused'
  /\ \A i \in Pending(rows') : rows'[i].attempts > rows[i].attempts => ledger'[i].due > now

InFocus ==
  /\ InWide' = InWide
  /\ IF InWide THEN Wide ELSE Long
=============================================================================
