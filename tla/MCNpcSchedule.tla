--------------------------- MODULE MCNpcSchedule ---------------------------
(* Values for TLC: a town with one bed and a wilderness, a meal in the town *)
(* and work in the wilderness.                                             *)
EXTENDS NpcSchedule, TLC

CONSTANTS bed, meal, work

MCJobPlace == meal :> "Town" @@ work :> "Wild"
MCJobNeed == meal :> "Hunger" @@ work :> None
MCFixedPlace == bed :> "Town"
MCFixedNeeds == bed :> {"Hunger"}

\* NPCs are alike, and so are the handles of camps.
Symmetry == Permutations(Npcs) \cup Permutations(Camps)
=============================================================================
