---------------------------- MODULE MCSyncFacade ----------------------------
(***************************************************************************)
(* Instances of SyncFacade for TLC, and next to them the pure functions it *)
(* calls: the two take turns at being checked and share no state.          *)
(***************************************************************************)
EXTENDS SyncFacade, MCRules

CONSTANTS i1, i2, i3, c1, c2

Valid == [NonObject EXCEPT !.is = "object", !.method = "POST", !.url = "absolute"]

\* A good input and one whose URL is empty; the other faults are checked in MCRules.
MCInputs == {Valid, [Valid EXCEPT !.url = ""]}

\* Calls and ids are interchangeable.
FacadeSymmetry == Permutations(Slot) \cup Permutations(Item)
-----------------------------------------------------------------------------
MCInit == Init /\ RulesInit

\* The rules know nothing of the facade's state, so one initial state of it is enough.
Before == entry = "web" /\ cap = 1 /\ \A c \in Slot : calls[c].phase = "free"

MCNext ==
  \/ call = "none" /\ Next /\ UNCHANGED rulesVars
  \/ Before /\ RulesNext /\ UNCHANGED vars

MCSpec == MCInit /\ [][MCNext]_<<vars, rulesVars>>
=============================================================================
