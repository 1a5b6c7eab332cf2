------------------------------ MODULE MCAggro ------------------------------
(* Values for TLC: a villager that has a grudge against a rival in some    *)
(* hours, and a wolf.  The rival does not come near the wolf, and does not *)
(* notice the villager.                                                    *)
EXTENDS Aggro, TLC

CONSTANTS villager, rival, wolf

MCFaction == [n \in Npcs |-> IF n = wolf THEN "Wolf" ELSE "Human"]

MCHostility ==
  [f \in {"Human", "Wolf"} |-> [g \in {"Human", "Wolf"} |-> IF f = g THEN 0 ELSE Full]]

MCSight ==
  [n \in Npcs |->
     CASE n = villager -> {wolf, rival} [] n = wolf -> {villager} [] n = rival -> {}]

MCRelated == {<<villager, rival>>}
=============================================================================
