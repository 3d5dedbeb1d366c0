---------------------------- MODULE MCRetryWake ----------------------------
(***************************************************************************)
(* Instances of RetryWake for TLC.  Priorities play no part in the wakes.  *)
(***************************************************************************)
EXTENDS RetryWake

CONSTANT i1

MCWeight == [i \in Item |-> 1]

\* Overtaking needs two coroutines that arm, a leaked collector two watches.
Overtaking == [outages |-> FALSE, engines |-> 1, watches |-> 2, arming |-> 2]
Outage     == [outages |-> TRUE, engines |-> 1, watches |-> 1, arming |-> 1]

MCBounds == {Overtaking, Outage}
MCOvertaking == {Overtaking}
=============================================================================
