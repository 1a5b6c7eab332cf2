--------------------------- MODULE MCPathfinding ---------------------------
(* Values for TLC: a yard with a wall that leaves one way round, and a room *)
(* of two tiles without a door.                                            *)
(*      . . # . # .                                                        *)
(*      . . # . # .                                                        *)
(*      . . # . # #                                                        *)
(*      . . . . # #                                                        *)
EXTENDS Pathfinding

MCWalls == ({2} \X (0 .. 2)) \cup ({4} \X (0 .. 3)) \cup {<<5, 2>>, <<5, 3>>}
MCStart == <<<<0, 0>>, <<5, 0>>>>
MCTargets == {<<3, 2>>, <<3, 3>>, <<4, 1>>}

\* Bresenham's line ends where it should, for every pair of tiles.
ASSUME LineArrives ==
  \A a, b \in Tiles :
    LET line == Line[a, b] IN
    /\ \E k \in DOMAIN line : k + 1 \notin DOMAIN line /\ line[k] = b
    /\ \A k \in DOMAIN line : k + 1 \in DOMAIN line => line[k + 1] \in Adjacent[line[k]]
=============================================================================
