------------------------ MODULE MCDrainController ------------------------
(***************************************************************************)
(* Instances of DrainController for TLC.                                   *)
(***************************************************************************)
EXTENDS DrainController

CONSTANTS i1, i2

\* Priorities play no part in the loop.
MCWeight == [i \in Item |-> 1]
=============================================================================
